---- MODULE Spec2Model ----
(***************************************************************************)
(* Cache / prefetch subsystem of the Jira VS Code extension:               *)
(*   - IssueTransitionStore      (model/issueTransitionStore.ts)           *)
(*   - ProjectStatusStore        (model/projectStatusStore.ts)             *)
(*   - ProjectTransitionPrefetcher (model/projectTransitionPrefetcher.ts)  *)
(*   - JiraAuthManager login/logout and the onDidChangeAuth handler of     *)
(*     activate (extension.ts)                                             *)
(* JavaScript runs one handler at a time; every action below is one        *)
(* handler or one continuation of an awaited request, run to its next      *)
(* suspension point.                                                       *)
(***************************************************************************)
EXTENDS Integers, Sequences, FiniteSets, TLC

(***************************************************************************)
(* Strings are sequences of one-character strings, so that trim() and      *)
(* toLowerCase() are computed, not assumed.  Undef stands for undefined.   *)
(***************************************************************************)
Undef == <<"undefined">>

LowerTable ==
    ("A" :> "a") @@ ("B" :> "b") @@ ("D" :> "d") @@ ("P" :> "p") @@
    ("Q" :> "q") @@ ("T" :> "t") @@ ("O" :> "o") @@ ("N" :> "n") @@ ("E" :> "e")

toLowerCase(s) ==
    [i \in 1..Len(s) |-> IF s[i] \in DOMAIN LowerTable THEN LowerTable[s[i]] ELSE s[i]]

RECURSIVE TrimStart(_)
TrimStart(s) == IF Len(s) > 0 /\ Head(s) = " " THEN TrimStart(Tail(s)) ELSE s

RECURSIVE TrimEnd(_)
TrimEnd(s) == IF Len(s) > 0 /\ s[Len(s)] = " " THEN TrimEnd(SubSeq(s, 1, Len(s) - 1)) ELSE s

trim(s) == TrimEnd(TrimStart(s))

\* value?.trim()
OptTrim(v) == IF v = Undef THEN Undef ELSE trim(v)

\* `${a}::${b}`
Delim == <<"::">>

startsWith(s, prefix) ==
    /\ Len(prefix) <= Len(s)
    /\ SubSeq(s, 1, Len(prefix)) = prefix

(***************************************************************************)
(* JavaScript Map over string keys: a function whose domain is the set of  *)
(* keys present.                                                           *)
(***************************************************************************)
EmptyMap == [k \in {} |-> <<>>]

MapHas(m, k) == k \in DOMAIN m

MapSet(m, k, v) == [x \in (DOMAIN m) \cup {k} |-> IF x = k THEN v ELSE m[x]]

MapDelete(m, k) == [x \in (DOMAIN m) \ {k} |-> m[x]]

(***************************************************************************)
(* Bounds of the model.                                                    *)
(***************************************************************************)
MaxLoads == 2        \* status loads (fetchAndCache runs) in flight at a time
MaxTasks == 2        \* prefetch tasks running at a time
MaxBatches == 2      \* prefetchIssues batches running at a time

(***************************************************************************)
(* Inputs.  Project keys as callers pass them, and what the remote API     *)
(* returns for GET project/{key}/statuses (already mapped by               *)
(* fetchProjectStatuses to ProjectStatusesResponse).                       *)
(***************************************************************************)
ProjectKeyInputs == { <<"P">>, <<"p">>, <<"P", " ">>, <<" ">>, Undef }

TODO == <<"T", "o", " ", "D", "o">>
DONE == <<"D", "o", "n", "e">>
StTodo == [id |-> <<"1">>, name |-> TODO]
StDone == [id |-> <<"2">>, name |-> DONE]
TaskId == <<"7">>
TaskName == <<"T", "a", "s", "k">>
BugName == <<"B", "u", "g">>

Response1 ==
    [ allStatuses |-> <<StTodo, StDone>>,
      issueTypeStatuses |->
        << [issueTypeId |-> TaskId, issueTypeName |-> TaskName, statuses |-> <<StTodo, StDone>>],
           [issueTypeId |-> Undef, issueTypeName |-> BugName, statuses |-> <<StTodo>>] >> ]

\* two issue types of one name: the second finds the name slot claimed
Response2 ==
    [ allStatuses |-> <<StDone, StTodo>>,
      issueTypeStatuses |->
        << [issueTypeId |-> TaskId, issueTypeName |-> TaskName, statuses |-> <<StDone>>],
           [issueTypeId |-> Undef, issueTypeName |-> TaskName, statuses |-> <<StTodo>>] >> ]

StatusResponses == { Response1, Response2 }

VARIABLES
    authInfo,        \* globalState[AUTH_STATE_KEY] is set
    token,           \* the secret of the account is stored
    authPc,          \* position of a running login() / logout()
    cache,           \* ProjectStatusStore.cache
    pending,         \* ProjectStatusStore.pending: key -> id of the load whose promise it holds
    issueTypeCache,  \* ProjectStatusStore.issueTypeCache
    loads,           \* the loadStatuses promises that are not settled yet, by slot
    window,          \* history: per key, the loads that callers started or joined since
                     \*   the last clear() or completion of a load of that key
    tcache,          \* IssueTransitionStore.cache
    pendingProjects, \* ProjectTransitionPrefetcher.pendingProjects: key -> id of its task
    prefetchedKeys,  \* ProjectTransitionPrefetcher.prefetchedKeys
    tasks,           \* the prefetchForProject tasks that are running, by slot
    batches,         \* the prefetchTransitionsForIssues calls that are running, by slot
    history,         \* history: per triple, how its warm-ups have ended so far
    openIssuePanels, \* createIssueController: keys of the issue panels that are open
    panels,          \* history: the issue panels created so far, and those of them still open
    disposed,        \* the disposed flag of the issue panel
    panelState,      \* the panelState of the issue panel
    rendered,        \* what the last renderIssuePanelContent call gave the status control
    procs,           \* the panel's handler invocations that are suspended at an await, by slot
    remoteStatus,    \* the status name of the issue at the Jira server
    messages,        \* how many commands and webview messages the open panel has handled
    event            \* history: what the last step did

storeVars == <<cache, pending, issueTypeCache, loads, window>>
authVars == <<authInfo, token, authPc>>
prefetchVars == <<pendingProjects, prefetchedKeys, tasks, batches, history>>
panelVars ==
    <<openIssuePanels, panels, disposed, panelState, rendered, procs, remoteStatus, messages>>
vars == <<authInfo, token, authPc, cache, pending, issueTypeCache, loads, window, tcache,
          pendingProjects, prefetchedKeys, tasks, batches, history,
          openIssuePanels, panels, disposed, panelState, rendered, procs, remoteStatus, messages,
          event>>

(***************************************************************************)
(* IssueTransitionStore                                                    *)
(***************************************************************************)
\* the parts of a transition cache key
Parts(projectKey, issueTypeId, statusName) ==
    [projectKey |-> projectKey, issueTypeId |-> issueTypeId, statusName |-> statusName]

\* buildKey without the lower-casing of the parts
buildKeyCaseSensitive(parts) ==
    LET projectKey == OptTrim(parts.projectKey)
        issueTypeId == OptTrim(parts.issueTypeId)
        statusName == OptTrim(parts.statusName)
    IN  IF \/ projectKey = Undef \/ Len(projectKey) = 0
           \/ issueTypeId = Undef \/ Len(issueTypeId) = 0
           \/ statusName = Undef \/ Len(statusName) = 0
        THEN Undef
        ELSE projectKey \o Delim \o issueTypeId \o Delim \o statusName

\* buildKey(parts): undefined when a part is missing or blank
buildKey(parts) ==
    LET projectKey == OptTrim(parts.projectKey)
        issueTypeId == OptTrim(parts.issueTypeId)
        statusName == OptTrim(parts.statusName)
    IN  IF \/ projectKey = Undef \/ Len(projectKey) = 0
           \/ issueTypeId = Undef \/ Len(issueTypeId) = 0
           \/ statusName = Undef \/ Len(statusName) = 0
        THEN Undef
        ELSE toLowerCase(projectKey) \o Delim \o toLowerCase(issueTypeId)
                \o Delim \o toLowerCase(statusName)

\* get(parts): the stored list, or undefined
TransitionGet(tc, parts) ==
    LET key == buildKey(parts)
    IN  IF key = Undef THEN Undef
        ELSE IF MapHas(tc, key) THEN tc[key] ELSE Undef

\* remember without the test of the list's length
TransitionRememberEmpty(tc, parts, transitions) ==
    LET key == buildKey(parts)
    IN  IF key = Undef \/ transitions = Undef
        THEN tc
        ELSE MapSet(tc, key, transitions)

\* remember that keeps the list a key already holds
TransitionRememberOnce(tc, parts, transitions) ==
    LET key == buildKey(parts)
    IN  IF key = Undef \/ transitions = Undef \/ Len(transitions) = 0
        THEN tc
        ELSE IF MapHas(tc, key) THEN tc ELSE MapSet(tc, key, transitions)

\* remember(parts, transitions): the cache after the call
TransitionRemember(tc, parts, transitions) ==
    LET key == buildKey(parts)
    IN  IF key = Undef \/ transitions = Undef \/ Len(transitions) = 0
        THEN tc
        ELSE MapSet(tc, key, transitions)

\* clear()
TransitionClear(tc) == EmptyMap

(***************************************************************************)
(* ProjectStatusStore.  The store's three maps, the promises and the       *)
(* history are handled as one record st so that a handler calling several  *)
(* methods in a row is one action.                                         *)
(***************************************************************************)
StoreState == [cache |-> cache, pending |-> pending, itc |-> issueTypeCache,
               loads |-> loads, window |-> window, overflow |-> FALSE]

\* normalizeKey(projectKey)
normalizeKey(projectKey) ==
    LET trimmed == OptTrim(projectKey)
    IN  IF trimmed # Undef /\ Len(trimmed) > 0 THEN trimmed ELSE Undef

\* normalizeIdentifier(value) of projectStatusStore.ts
normalizeIdentifier(value) ==
    LET trimmed == IF value = Undef THEN Undef ELSE toLowerCase(trim(value))
    IN  IF trimmed # Undef /\ Len(trimmed) > 0 THEN trimmed ELSE Undef

buildIssueTypeCacheKey(projectKey, identifier) == projectKey \o Delim \o identifier

sanitizeIssueTypeGroups(groups) ==
    [i \in 1..Len(groups) |->
        [issueTypeId |-> groups[i].issueTypeId,
         issueTypeName |-> groups[i].issueTypeName,
         statuses |-> groups[i].statuses]]

buildCacheEntry(response) ==
    [allStatuses |-> response.allStatuses,
     issueTypeStatuses |-> sanitizeIssueTypeGroups(response.issueTypeStatuses)]

\* the non-empty identifiers of a group or of lookup criteria, id first
Identifiers(c) ==
    SelectSeq(<<normalizeIdentifier(c.issueTypeId), normalizeIdentifier(c.issueTypeName)>>,
              LAMBDA id : id # Undef)

\* the inner loop of primeIssueTypeCache without the has() test
RECURSIVE PrimeIdentifiersOverwrite(_, _, _, _)
PrimeIdentifiersOverwrite(itc, base, ids, statuses) ==
    IF ids = <<>> THEN itc
    ELSE PrimeIdentifiersOverwrite(MapSet(itc, base \o Delim \o Head(ids), statuses),
                                   base, Tail(ids), statuses)

\* primeIssueTypeCache(projectKey, groups): the issueTypeCache after the call,
\* groups and identifiers visited in order, has() checked before each set()
RECURSIVE PrimeIdentifiers(_, _, _, _)
PrimeIdentifiers(itc, base, ids, statuses) ==
    IF ids = <<>> THEN itc
    ELSE LET cacheKey == buildIssueTypeCacheKey(base, Head(ids))
         IN  PrimeIdentifiers(IF MapHas(itc, cacheKey) THEN itc ELSE MapSet(itc, cacheKey, statuses),
                              base, Tail(ids), statuses)

RECURSIVE PrimeGroups(_, _, _)
PrimeGroups(itc, base, groups) ==
    IF groups = <<>> THEN itc
    ELSE PrimeGroups(PrimeIdentifiers(itc, base, Identifiers(Head(groups)), Head(groups).statuses),
                     base, Tail(groups))

primeIssueTypeCache(itc, projectKey, groups) ==
    PrimeGroups(itc, toLowerCase(projectKey), groups)

\* pruneIssueTypeCache(projectKey)
pruneIssueTypeCache(itc, projectKey) ==
    LET prefix == toLowerCase(projectKey) \o Delim
    IN  [k \in {x \in DOMAIN itc : ~startsWith(x, prefix)} |-> itc[k]]

\* get(projectKey): [found, value]
StoreGet(st, projectKey) ==
    LET key == normalizeKey(projectKey)
    IN  IF key # Undef /\ MapHas(st.cache, key)
        THEN [found |-> TRUE, value |-> st.cache[key].allStatuses]
        ELSE [found |-> FALSE, value |-> <<>>]

\* getIssueTypeStatuses(projectKey, criteria): [found, value]; the id slot is
\* consulted first, the name slot second
RECURSIVE LookupIdentifiers(_, _, _)
LookupIdentifiers(itc, base, ids) ==
    IF ids = <<>> THEN [found |-> FALSE, value |-> <<>>]
    ELSE LET cacheKey == buildIssueTypeCacheKey(base, Head(ids))
         IN  IF MapHas(itc, cacheKey)
             THEN [found |-> TRUE, value |-> itc[cacheKey]]
             ELSE LookupIdentifiers(itc, base, Tail(ids))

getIssueTypeStatuses(st, projectKey, criteria) ==
    LET normalizedProjectKey == normalizeKey(projectKey)
    IN  IF normalizedProjectKey = Undef
        THEN [found |-> FALSE, value |-> <<>>]
        ELSE LookupIdentifiers(st.itc, toLowerCase(normalizedProjectKey), Identifiers(criteria))

WindowAdd(w, key, l) == MapSet(w, key, (IF MapHas(w, key) THEN w[key] ELSE {}) \cup {l})

FreeLoad == [key |-> <<>>, stage |-> "free", authInfo |-> FALSE]

FreeLoads(st) == {l \in DOMAIN st.loads : st.loads[l].stage = "free"}

Lowest(S) == CHOOSE x \in S : \A y \in S : x <= y

\* loadStatuses without the lookup of the pending map
loadStatusesNoJoin(st, key) ==
    IF FreeLoads(st) = {} THEN [st |-> [st EXCEPT !.overflow = TRUE], load |-> 0]
    ELSE LET id == Lowest(FreeLoads(st))
             promise == [key |-> key, stage |-> "creds", authInfo |-> authInfo]
         IN  [st |-> [st EXCEPT !.loads[id] = promise,
                                !.pending = MapSet(@, key, id),
                                !.window = WindowAdd(@, key, id)],
              load |-> id]

\* loadStatuses(key): joins the promise the pending map holds for key, or runs
\* fetchAndCache (which reads the auth info before it first suspends) and
\* records its promise.  [st, load]
loadStatuses(st, key) ==
    IF MapHas(st.pending, key)
    THEN LET existing == st.pending[key]
         IN  [st |-> [st EXCEPT !.window = WindowAdd(@, key, existing)],
              load |-> existing]
    ELSE IF FreeLoads(st) = {} THEN [st |-> [st EXCEPT !.overflow = TRUE], load |-> 0]
    ELSE LET id == Lowest(FreeLoads(st))
             promise == [key |-> key, stage |-> "creds", authInfo |-> authInfo]
         IN  [st |-> [st EXCEPT !.loads[id] = promise,
                                !.pending = MapSet(@, key, id),
                                !.window = WindowAdd(@, key, id)],
              load |-> id]

\* ensureEntry(projectKey), shared by ensure and ensureAllIssueTypeStatuses.
\* [st, load, hit]: load = 0 when no promise is awaited
ensureEntry(st, projectKey) ==
    LET key == normalizeKey(projectKey)
    IN  IF key = Undef THEN [st |-> st, load |-> 0, hit |-> FALSE]
        ELSE IF MapHas(st.cache, key) THEN [st |-> st, load |-> 0, hit |-> TRUE]
        ELSE LET r == loadStatuses(st, key)
             IN  [st |-> r.st, load |-> r.load, hit |-> FALSE]

\* refresh(projectKey) up to its await.  [st, load, hit]
refresh(st, projectKey) ==
    LET key == normalizeKey(projectKey)
    IN  IF key = Undef THEN [st |-> st, load |-> 0, hit |-> FALSE]
        ELSE LET r == loadStatuses([st EXCEPT !.cache = MapDelete(@, key),
                                              !.itc = pruneIssueTypeCache(@, key)], key)
             IN  [st |-> r.st, load |-> r.load, hit |-> FALSE]

\* clear() without issueTypeCache.clear()
clearKeepsIssueTypes(st) ==
    [st EXCEPT !.cache = EmptyMap, !.pending = EmptyMap, !.window = EmptyMap]

\* clear()
clear(st) ==
    [st EXCEPT !.cache = EmptyMap, !.pending = EmptyMap, !.itc = EmptyMap,
               !.window = EmptyMap]

\* settle without the pending.delete(key) of then/catch
settleKeepsMarker(st, l) ==
    [st EXCEPT !.loads[l] = FreeLoad,
               !.window = MapDelete(@, st.loads[l].key)]

\* the then/catch of loadStatuses: the promise settles and pending.delete(key).
\* history: the calls for the key that were served by this load are over
settle(st, l) ==
    LET key == st.loads[l].key
    IN  [st EXCEPT !.loads[l] = FreeLoad,
                   !.pending = MapDelete(@, key),
                   !.window = IF MapHas(@, key) /\ l \in @[key] THEN MapDelete(@, key) ELSE @]

\* fetchAndCache after a successful fetchProjectStatuses
fetchAndCacheSuccess(st, l, response) ==
    LET key == st.loads[l].key
        entry == buildCacheEntry(response)
        cached == [st EXCEPT !.cache = MapSet(@, key, entry),
                             !.itc = primeIssueTypeCache(@, key, entry.issueTypeStatuses)]
    IN  settle(cached, l)

(***************************************************************************)
(* ProjectTransitionPrefetcher.  W is the whole of the caches: the status  *)
(* store st, the transition cache tc and the prefetcher pf, with the       *)
(* history ev of the step being taken.                                     *)
(***************************************************************************)
Event(op, key) ==
    [op |-> op, key |-> key, res |-> "none", value |-> <<>>, parts |-> <<>>, 
     pass |-> [outcome |-> "none", out |-> EmptyMap, undisturbed |-> TRUE]]

World(op, key) ==
    [st |-> StoreState, tc |-> tcache,
     pf |-> [pendingProjects |-> pendingProjects, prefetchedKeys |-> prefetchedKeys,
             tasks |-> tasks, batches |-> batches, history |-> history,
             overflow |-> FALSE],
     ev |-> Event(op, key)]

SetWorld(W) ==
    /\ cache' = W.st.cache
    /\ pending' = W.st.pending
    /\ issueTypeCache' = W.st.itc
    /\ loads' = W.st.loads
    /\ window' = W.st.window
    /\ tcache' = W.tc
    /\ pendingProjects' = W.pf.pendingProjects
    /\ prefetchedKeys' = W.pf.prefetchedKeys
    /\ tasks' = W.pf.tasks
    /\ batches' = W.pf.batches
    /\ history' = W.pf.history
    /\ event' = W.ev

WithinBounds(W) == ~W.st.overflow /\ ~W.pf.overflow

\* normalizeProjectKey(projectKey)
normalizeProjectKey(projectKey) ==
    LET trimmed == OptTrim(projectKey)
    IN  IF trimmed # Undef /\ Len(trimmed) > 0 THEN toLowerCase(trimmed) ELSE Undef

\* buildPrefetchKey(parts)
buildPrefetchKey(projectKey, issueTypeIdentifier, statusName) ==
    toLowerCase(projectKey) \o Delim \o toLowerCase(issueTypeIdentifier)
        \o Delim \o toLowerCase(statusName)

\* issueTypeGroup.issueTypeId ?? issueTypeGroup.issueTypeName
GroupIdentifier(group) ==
    IF group.issueTypeId # Undef THEN group.issueTypeId ELSE group.issueTypeName

FreeTask ==
    [key |-> <<>>, stage |-> "free", authInfo |-> FALSE, load |-> 0, groups |-> <<>>,
     g |-> 0, warm |-> <<>>, rep |-> <<>>, out |-> EmptyMap, undisturbed |-> TRUE]

FreeTasks(pf) == {t \in DOMAIN pf.tasks : pf.tasks[t].stage = "free"}

\* prefetch with then() in place of finally(): a rejected task keeps its entry
finishTaskThen(W, t, outcome) ==
    LET task == W.pf.tasks[t]
    IN  [W EXCEPT !.pf.tasks[t] = FreeTask,
                  !.pf.pendingProjects = IF outcome = "failed" THEN @ ELSE MapDelete(@, task.key),
                  !.ev.pass = [outcome |-> outcome, out |-> task.out,
                               undisturbed |-> task.undisturbed]]

\* the finally() of prefetch: the task is over, its tracking entry is removed
finishTask(W, t, outcome) ==
    LET task == W.pf.tasks[t]
    IN  [W EXCEPT !.pf.tasks[t] = FreeTask,
                  !.pf.pendingProjects = MapDelete(@, task.key),
                  !.ev.pass = [outcome |-> outcome, out |-> task.out,
                               undisturbed |-> task.undisturbed]]

\* prefetchStatus without the prefetchedKeys.has(cacheKey) return
RECURSIVE FanOutNoSkip(_, _, _, _, _)
FanOutNoSkip(tc, projectKey, identifier, statuses, acc) ==
    IF statuses = <<>> THEN acc
    ELSE LET statusName == OptTrim(Head(statuses).name)
             blank == statusName = Undef \/ Len(statusName) = 0
             cacheKey == IF blank THEN Undef
                         ELSE toLowerCase(projectKey) \o Delim \o toLowerCase(identifier)
                                 \o Delim \o toLowerCase(statusName)
             existing == TransitionGet(tc, [projectKey |-> projectKey,
                                            issueTypeId |-> identifier,
                                            statusName |-> statusName])
             next ==
                IF blank
                THEN [acc EXCEPT !.warm = Append(@, "done")]
                ELSE IF existing # Undef /\ Len(existing) > 0
                THEN [acc EXCEPT !.prefetchedKeys = @ \cup {cacheKey},
                                 !.history = MapSet(@, cacheKey, "succeeded"),
                                 !.warm = Append(@, "done"),
                                 !.out = MapSet(@, cacheKey, "cached")]
                ELSE [acc EXCEPT !.warm = Append(@, "search"),
                                 !.out = MapSet(@, cacheKey, "searching")]
         IN  FanOutNoSkip(tc, projectKey, identifier, Tail(statuses), next)

\* prefetchStatus up to its first await, for the statuses of one group in
\* order: acc = [prefetchedKeys, history, warm, out]
RECURSIVE FanOut(_, _, _, _, _)
FanOut(tc, projectKey, identifier, statuses, acc) ==
    IF statuses = <<>> THEN acc
    ELSE LET statusName == OptTrim(Head(statuses).name)
             blank == statusName = Undef \/ Len(statusName) = 0
             cacheKey == IF blank THEN Undef
                         ELSE buildPrefetchKey(projectKey, identifier, statusName)
             existing == TransitionGet(tc, [projectKey |-> projectKey,
                                            issueTypeId |-> identifier,
                                            statusName |-> statusName])
             next ==
                IF blank
                THEN [acc EXCEPT !.warm = Append(@, "done")]
                ELSE IF cacheKey \in acc.prefetchedKeys
                THEN [acc EXCEPT !.warm = Append(@, "done"),
                                 !.out = MapSet(@, cacheKey, "skipped")]
                ELSE IF existing # Undef /\ Len(existing) > 0
                THEN [acc EXCEPT !.prefetchedKeys = @ \cup {cacheKey},
                                 !.history = MapSet(@, cacheKey, "succeeded"),
                                 !.warm = Append(@, "done"),
                                 !.out = MapSet(@, cacheKey, "cached")]
                ELSE [acc EXCEPT !.warm = Append(@, "search"),
                                 !.out = MapSet(@, cacheKey, "searching")]
         IN  FanOut(tc, projectKey, identifier, Tail(statuses), next)

AllDone(warm) == \A i \in 1..Len(warm) : warm[i] = "done"

\* the for loop of prefetchForProject from group g on, up to the next await:
\* prefetchIssueType fans the statuses of a group out and awaits them all
RECURSIVE continueWalk(_, _, _)
continueWalk(W, t, g) ==
    LET task == W.pf.tasks[t]
    IN  IF g > Len(task.groups) THEN finishTask(W, t, "walked")
        ELSE LET group == task.groups[g]
                 issueTypeIdentifier == GroupIdentifier(group)
             IN  IF issueTypeIdentifier = Undef \/ Len(issueTypeIdentifier) = 0
                 THEN continueWalk(W, t, g + 1)
                 ELSE LET f == FanOut(W.tc, task.key, issueTypeIdentifier, group.statuses,
                                      [prefetchedKeys |-> W.pf.prefetchedKeys,
                                       history |-> W.pf.history,
                                       warm |-> <<>>, out |-> task.out])
                          fanned == [W EXCEPT !.pf.prefetchedKeys = f.prefetchedKeys,
                                              !.pf.history = f.history,
                                              !.pf.tasks[t].g = g,
                                              !.pf.tasks[t].stage = "walk",
                                              !.pf.tasks[t].warm = f.warm,
                                              !.pf.tasks[t].rep = [i \in 1..Len(f.warm) |-> <<>>],
                                              !.pf.tasks[t].out = f.out]
                      IN  IF AllDone(f.warm) THEN continueWalk(fanned, t, g + 1) ELSE fanned

\* prefetchForProject once ensureAllIssueTypeStatuses has resolved to groups
startWalk(W, t, groups) ==
    IF Len(groups) = 0 THEN finishTask(W, t, "nodata")
    ELSE continueWalk([W EXCEPT !.pf.tasks[t].groups = groups], t, 1)

\* prefetchForProject after getToken() has resolved
prefetchForProject(W, t, tokenNow) ==
    LET task == W.pf.tasks[t]
    IN  IF ~task.authInfo \/ ~tokenNow THEN finishTask(W, t, "nocreds")
        ELSE LET r == ensureEntry(W.st, task.key)
             IN  IF r.hit
                 THEN startWalk(W, t, W.st.cache[task.key].issueTypeStatuses)
                 ELSE [W EXCEPT !.st = r.st,
                                !.pf.tasks[t].stage = "statuses",
                                !.pf.tasks[t].load = r.load]

\* prefetch without the pendingProjects.has(normalized) return
prefetchNoCheck(W, projectKey) ==
    LET normalized == normalizeProjectKey(projectKey)
    IN  IF normalized = Undef THEN W
        ELSE IF FreeTasks(W.pf) = {} THEN [W EXCEPT !.pf.overflow = TRUE]
        ELSE LET id == Lowest(FreeTasks(W.pf))
                 task == [FreeTask EXCEPT !.key = normalized, !.stage = "creds",
                                          !.authInfo = authInfo]
             IN  [W EXCEPT !.pf.tasks[id] = task,
                           !.pf.pendingProjects = MapSet(@, normalized, id)]

\* prefetch(projectKey) up to the first await of its task
prefetch(W, projectKey) ==
    LET normalized == normalizeProjectKey(projectKey)
    IN  IF normalized = Undef THEN W
        ELSE IF MapHas(W.pf.pendingProjects, normalized) THEN W
        ELSE IF FreeTasks(W.pf) = {} THEN [W EXCEPT !.pf.overflow = TRUE]
        ELSE LET id == Lowest(FreeTasks(W.pf))
                 task == [FreeTask EXCEPT !.key = normalized, !.stage = "creds",
                                          !.authInfo = authInfo]
             IN  [W EXCEPT !.pf.tasks[id] = task,
                           !.pf.pendingProjects = MapSet(@, normalized, id)]

\* the tasks awaiting load l go on when its promise settles
RECURSIVE resumeTasks(_, _, _, _, _)
resumeTasks(W, l, res, entry, t) ==
    IF t \notin DOMAIN W.pf.tasks THEN W
    ELSE LET task == W.pf.tasks[t]
             next == IF task.stage = "statuses" /\ task.load = l
                     THEN IF res = "entry" THEN startWalk(W, t, entry.issueTypeStatuses)
                          ELSE IF res = "undef" THEN finishTask(W, t, "nodata")
                          ELSE finishTask(W, t, "failed")
                     ELSE W
         IN  resumeTasks(next, l, res, entry, t + 1)

\* a warm-up is over; when it was the last of its group the walk goes on
endWarmup(W, t, i, outcome, cacheKey) ==
    LET ended == [W EXCEPT !.pf.tasks[t].warm[i] = "done",
                           !.pf.tasks[t].out =
                                MapSet(@, cacheKey, IF outcome = "stored" THEN "stored" ELSE "failed"),
                           !.pf.history = MapSet(@, cacheKey,
                                IF outcome = "stored" THEN "succeeded" ELSE "failed")]
    IN  IF AllDone(ended.pf.tasks[t].warm)
        THEN continueWalk(ended, t, ended.pf.tasks[t].g + 1)
        ELSE ended

WarmupKey(task, i) ==
    buildPrefetchKey(task.key, GroupIdentifier(task.groups[task.g]),
                     trim(task.groups[task.g].statuses[i].name))

\* warmProjectCaches(projectKey) of activate
warmProjectCaches(W, projectKey) ==
    IF projectKey = Undef \/ Len(projectKey) = 0 THEN W
    ELSE LET ensured == ensureEntry(ensureEntry(W.st, projectKey).st, projectKey).st
         IN  prefetch([W EXCEPT !.st = ensured], projectKey)

\* history: a clear() disturbs the passes that are running
Disturb(tsks) ==
    [t \in DOMAIN tsks |->
        IF tsks[t].stage = "free" THEN tsks[t] ELSE [tsks[t] EXCEPT !.undisturbed = FALSE]]

\* the onDidChangeAuth handler of activate
onDidChangeAuth(W, selected) ==
    LET cleared == [W EXCEPT !.st = clear(@), !.tc = TransitionClear(@),
                             !.pf.tasks = Disturb(@),
                             !.ev.res = IF DOMAIN W.st.cache # {} /\ DOMAIN W.tc # {}
                                        THEN "both" ELSE "some"]
    IN  IF selected # Undef THEN warmProjectCaches(cleared, selected) ELSE cleared

\* const ISSUE_LIMIT_PER_PREFETCH
ISSUE_LIMIT_PER_PREFETCH == 10

\* fetch[i]: prefetchIssueTransitions of issue i awaits fetchIssueTransitions
\* ("fetch"), or has returned ("none" without a request, "done" after it)
FreeBatch ==
    [key |-> <<>>, stage |-> "free", authInfo |-> FALSE, issues |-> <<>>, fetch |-> <<>>]

\* prefetchIssueTransitions(authInfo, token, projectKey, issue) up to its
\* await: acc = [prefetchedKeys, fetch]
prefetchIssueTransitions(tc, acc, projectKey, issue) ==
    LET none == [acc EXCEPT !.fetch = Append(@, "none")]
        id == OptTrim(issue.issueTypeId)
        name == OptTrim(issue.issueTypeName)
        issueTypeIdentifier ==
            IF id # Undef /\ Len(id) > 0 THEN id
            ELSE IF name # Undef /\ Len(name) > 0 THEN name ELSE Undef
        statusName == OptTrim(issue.statusName)
    IN  IF issue.key = Undef \/ Len(issue.key) = 0 THEN none
        ELSE IF issueTypeIdentifier = Undef \/ statusName = Undef \/ Len(statusName) = 0
        THEN none
        ELSE LET cacheKey == buildPrefetchKey(projectKey, issueTypeIdentifier, statusName)
                 existing == TransitionGet(tc, Parts(projectKey, GroupIdentifier(issue), statusName))
             IN  IF cacheKey \in acc.prefetchedKeys THEN none
                 ELSE IF existing # Undef /\ Len(existing) > 0
                 THEN [none EXCEPT !.prefetchedKeys = @ \cup {cacheKey}]
                 ELSE [acc EXCEPT !.fetch = Append(@, "fetch")]

\* prefetchTransitionsForIssues without issues.slice(0, ISSUE_LIMIT_PER_PREFETCH)
prefetchTransitionsForIssuesNoLimit(W, b, tokenNow) ==
    LET batch == W.pf.batches[b]
        RECURSIVE Map(_, _)
        Map(acc, i) ==
            IF i > Len(batch.issues) THEN acc
            ELSE Map(prefetchIssueTransitions(W.tc, acc, batch.key, batch.issues[i]), i + 1)
        f == Map([prefetchedKeys |-> W.pf.prefetchedKeys, fetch |-> <<>>], 1)
    IN  IF ~batch.authInfo \/ ~tokenNow
        THEN [W EXCEPT !.pf.batches[b] = FreeBatch, !.ev.res = "nocreds"]
        ELSE IF \A i \in 1..Len(f.fetch) : f.fetch[i] = "none"
        THEN [W EXCEPT !.pf.prefetchedKeys = f.prefetchedKeys, !.pf.batches[b] = FreeBatch]
        ELSE [W EXCEPT !.pf.prefetchedKeys = f.prefetchedKeys,
                       !.pf.batches[b].stage = "fetch",
                       !.pf.batches[b].fetch = f.fetch]

\* prefetchTransitionsForIssues without its check of the auth info and the token
prefetchTransitionsForIssuesNoCheck(W, b, tokenNow) ==
    LET batch == W.pf.batches[b]
        limitedIssues ==
            SubSeq(batch.issues, 1,
                   IF Len(batch.issues) < ISSUE_LIMIT_PER_PREFETCH
                   THEN Len(batch.issues) ELSE ISSUE_LIMIT_PER_PREFETCH)
        RECURSIVE Map(_, _)
        Map(acc, i) ==
            IF i > Len(limitedIssues) THEN acc
            ELSE Map(prefetchIssueTransitions(W.tc, acc, batch.key, limitedIssues[i]), i + 1)
        f == Map([prefetchedKeys |-> W.pf.prefetchedKeys, fetch |-> <<>>], 1)
    IN  IF \A i \in 1..Len(f.fetch) : f.fetch[i] = "none"
        THEN [W EXCEPT !.pf.prefetchedKeys = f.prefetchedKeys, !.pf.batches[b] = FreeBatch]
        ELSE [W EXCEPT !.pf.prefetchedKeys = f.prefetchedKeys,
                       !.pf.batches[b].stage = "fetch",
                       !.pf.batches[b].fetch = f.fetch]

\* prefetchTransitionsForIssues(projectKey, issues) after getToken() has
\* resolved, up to the await of Promise.all: every prefetchIssueTransitions
\* of the limited list has run to its request
prefetchTransitionsForIssues(W, b, tokenNow) ==
    LET batch == W.pf.batches[b]
        limitedIssues ==
            SubSeq(batch.issues, 1,
                   IF Len(batch.issues) < ISSUE_LIMIT_PER_PREFETCH
                   THEN Len(batch.issues) ELSE ISSUE_LIMIT_PER_PREFETCH)
        RECURSIVE Map(_, _)
        Map(acc, i) ==
            IF i > Len(limitedIssues) THEN acc
            ELSE Map(prefetchIssueTransitions(W.tc, acc, batch.key, limitedIssues[i]), i + 1)
        f == Map([prefetchedKeys |-> W.pf.prefetchedKeys, fetch |-> <<>>], 1)
    IN  IF ~batch.authInfo \/ ~tokenNow
        THEN [W EXCEPT !.pf.batches[b] = FreeBatch, !.ev.res = "nocreds"]
        ELSE IF \A i \in 1..Len(f.fetch) : f.fetch[i] = "none"
        THEN [W EXCEPT !.pf.prefetchedKeys = f.prefetchedKeys, !.pf.batches[b] = FreeBatch]
        ELSE [W EXCEPT !.pf.prefetchedKeys = f.prefetchedKeys,
                       !.pf.batches[b].stage = "fetch",
                       !.pf.batches[b].fetch = f.fetch]

(***************************************************************************)
(* What the remote API answers to the prefetcher.                          *)
(***************************************************************************)
ListA == <<"11">>
ListB == <<"21", "31">>

(***************************************************************************)
(* createIssueController: the issue details panel.  One panel, for the     *)
(* issue IssueKey; its handlers run as invocations that are suspended at   *)
(* their awaits.                                                           *)
(***************************************************************************)
MaxProcs == 2        \* handler invocations of the panel suspended at a time
MaxMessages == 3     \* commands and webview messages an open panel handles
MaxPanels == 2       \* issue panels created in a run

True == <<"true">>
False == <<"false">>

IssueKey == <<"P", "-", "1">>

\* deriveProjectKeyFromIssueKey(issueKey)
deriveProjectKeyFromIssueKey(issueKey) ==
    IF issueKey = Undef \/ Len(issueKey) = 0 THEN Undef
    ELSE LET dashes == {i \in 1..Len(issueKey) : issueKey[i] = "-"}
             \* issueKey.indexOf('-'), Len + 1 when there is none
             index == IF dashes = {} THEN Len(issueKey) + 1
                      ELSE CHOOSE i \in dashes : \A j \in dashes : i <= j
             trimmed == trim(SubSeq(issueKey, 1, index - 1))
         IN  IF Len(trimmed) > 0 THEN trimmed ELSE Undef

\* createPlaceholderIssue(issueKey)
createPlaceholderIssue(issueKey) ==
    [key |-> issueKey, issueTypeId |-> Undef, issueTypeName |-> Undef,
     statusName |-> <<"Loading">>]

\* the issue as fetchIssueDetails or the tree reports it
IssueTodo ==
    [key |-> IssueKey, issueTypeId |-> TaskId, issueTypeName |-> TaskName, statusName |-> TODO]
\* fetchIssueDetails: the issue with the status the server holds
RemoteIssue(statusName) == [IssueTodo EXCEPT !.statusName = statusName]
\* fetchIssueTransitions: the transitions the workflow offers from a status
RemoteTransitions(statusName) == IF statusName = TODO THEN ListA ELSE ListB
\* openIssueDetails(issueOrKey): nothing, an issue key, or an issue of the tree
IssueOrKey(key, isObject, issue) == [key |-> key, isObject |-> isObject, issue |-> issue]
IssueOrKeyInputs ==
    { IssueOrKey(Undef, FALSE, createPlaceholderIssue(<<>>)),
      IssueOrKey(IssueKey, FALSE, createPlaceholderIssue(<<>>)),
      IssueOrKey(IssueKey, TRUE, IssueTodo) }

FailedToUpdate == <<"Failed to update status">>

NoPanelState ==
    [issue |-> createPlaceholderIssue(IssueKey), transitions |-> Undef, statusPrefill |-> Undef,
     assignableUsers |-> Undef, assigneeQuery |-> <<>>,
     comments |-> Undef, commentsError |-> Undef, commentsLoading |-> TRUE,
     commentSubmitPending |-> FALSE, commentSubmitError |-> Undef,
     commentFormat |-> "wiki", commentDraft |-> <<>>, commentDeletingId |-> Undef,
     loadingIssue |-> TRUE]

\* IssuePanelOptions: the options of the status control
Options(statusOptions, statusPending, statusError) ==
    [statusOptions |-> statusOptions, statusPending |-> statusPending,
     statusError |-> statusError]

NoOptions == Options(Undef, Undef, Undef)

\* a ?? b
Coalesce(a, b) == IF a # Undef THEN a ELSE b

\* renderPanel(options): the options handed to renderIssuePanelContent
renderPanel(ps, options) ==
    LET fallbackStatusOptions == Coalesce(ps.transitions, ps.statusPrefill)
    IN  [statusOptions |-> IF options.statusOptions = Undef /\ fallbackStatusOptions # Undef
                           THEN fallbackStatusOptions ELSE options.statusOptions,
         statusPending |-> IF options.statusPending = Undef /\ ps.transitions = Undef
                           THEN True ELSE options.statusPending,
         statusError |-> options.statusError]

\* renderStatusControl: a select is shown and it is not disabled
ControlEnabled(rd) ==
    /\ rd.statusOptions # Undef
    /\ Len(rd.statusOptions) > 0
    /\ rd.statusPending # True

\* history: live, a live transitions fetch has ended since the invocation's
\* transition request succeeded; shown, the status options the control showed
\* when the invocation began
FreeProc ==
    [kind |-> "none", pc |-> "free", authInfo |-> FALSE, issue |-> createPlaceholderIssue(<<>>), arg |-> <<>>,
     live |-> FALSE, shown |-> <<>>]

FreeProcs == {p \in DOMAIN procs : procs[p].kind = "none"}

\* a list of IssueStatusOption, by the ids of the options
OptionIds(statuses) == [i \in 1..Len(statuses) |-> statuses[i].id[1]]

\* projectStatusStore.getIssueTypeStatuses(...) ?? projectStatusStore.get(...)
statusPrefillFor(st, projectKey, criteria) ==
    LET byType == getIssueTypeStatuses(st, projectKey, criteria)
        all == StoreGet(st, projectKey)
    IN  IF byType.found THEN OptionIds(byType.value)
        ELSE IF all.found THEN OptionIds(all.value)
        ELSE Undef

IssueTypeCriteria(issue) ==
    [issueTypeId |-> issue.issueTypeId, issueTypeName |-> issue.issueTypeName]

\* the key resolveIssueTransitions and openIssueDetails build for an issue
transitionCacheKey(projectKey, issue) ==
    Parts(projectKey, Coalesce(issue.issueTypeId, issue.issueTypeName), issue.statusName)

\* resolveIssueTransitions without its look into the transition cache
resolveIssueTransitionsNoCache(tc, projectKey, targetIssue, useCache) == Undef

\* resolveIssueTransitions(authInfo, token, targetIssue, projectKey, options)
\* up to its await: the cached list it returns, or Undef when it goes on to
\* fetchIssueTransitions
resolveIssueTransitions(tc, projectKey, targetIssue, useCache) ==
    LET cached == TransitionGet(tc, transitionCacheKey(projectKey, targetIssue))
    IN  IF useCache /\ cached # Undef /\ Len(cached) > 0 THEN cached ELSE Undef

(***************************************************************************)
(* Actions                                                                 *)
(***************************************************************************)
Init ==
    /\ authInfo \in BOOLEAN
    /\ token = authInfo
    /\ authPc = "idle"
    /\ cache = EmptyMap
    /\ pending = EmptyMap
    /\ issueTypeCache = EmptyMap
    /\ loads = [l \in 1..MaxLoads |-> FreeLoad]
    /\ window = EmptyMap
    /\ tcache = EmptyMap
    /\ pendingProjects = EmptyMap
    /\ prefetchedKeys = {}
    /\ tasks = [t \in 1..MaxTasks |-> FreeTask]
    /\ batches = [b \in 1..MaxBatches |-> FreeBatch]
    /\ history = EmptyMap
    /\ openIssuePanels = {}
    /\ panels = [created |-> 0, live |-> 0]
    /\ disposed = FALSE
    /\ panelState = NoPanelState
    /\ rendered = NoOptions
    /\ procs = [p \in 1..MaxProcs |-> FreeProc]
    /\ remoteStatus = TODO
    /\ messages = 0
    /\ event = Event("init", <<>>)

\* history: how a call r = [st, load, hit] on the store is served
Served(r) ==
    IF r.hit THEN "hit"
    ELSE IF r.load = 0 THEN "undef"
    ELSE IF loads[r.load].stage = "free" THEN "started"
    ELSE "joined"

Step(W) ==
    /\ WithinBounds(W)
    /\ SetWorld(W)
    /\ UNCHANGED panelVars

\* ensure(projectKey) / ensureAllIssueTypeStatuses(projectKey), up to the await
Ensure(projectKey) ==
    /\ Step([World("ensure", projectKey) EXCEPT
                !.st = ensureEntry(@, projectKey).st,
                !.ev.res = Served(ensureEntry(StoreState, projectKey))])
    /\ UNCHANGED authVars

\* refresh(projectKey), up to the await
Refresh(projectKey) ==
    /\ Step([World("refresh", projectKey) EXCEPT
                !.st = refresh(@, projectKey).st,
                !.ev.res = Served(refresh(StoreState, projectKey))])
    /\ UNCHANGED authVars

\* prefetch(projectKey)
Prefetch(projectKey) ==
    /\ Step(prefetch(World("prefetch", projectKey), projectKey))
    /\ UNCHANGED authVars

Settled(op, l, res) == [Event(op, loads[l].key) EXCEPT !.res = res]

\* fetchAndCache finds the auth info or the token missing: resolves undefined
LoadCredsMissing(l) ==
    /\ loads[l].stage = "creds"
    /\ ~loads[l].authInfo \/ ~token
    /\ Step(resumeTasks([World("credsMissing", <<>>) EXCEPT
                            !.st = settle(@, l), !.ev = Settled("credsMissing", l, "undef")],
                        l, "undef", <<>>, 1))
    /\ UNCHANGED authVars

\* fetchAndCache without its check of the auth info and the token
LoadIssueFetchNoCheck(l) ==
    /\ loads[l].stage = "creds"
    /\ loads' = [loads EXCEPT ![l].stage = "fetch"]
    /\ event' = Event("issueFetch", loads[l].key)
    /\ UNCHANGED <<authVars, cache, pending, issueTypeCache, window, tcache, prefetchVars, panelVars>>

\* fetchAndCache has both and issues fetchProjectStatuses
LoadIssueFetch(l) ==
    /\ loads[l].stage = "creds"
    /\ loads[l].authInfo /\ token
    /\ loads' = [loads EXCEPT ![l].stage = "fetch"]
    /\ event' = Event("issueFetch", loads[l].key)
    /\ UNCHANGED <<authVars, cache, pending, issueTypeCache, window, tcache, prefetchVars, panelVars>>

\* fetchProjectStatuses resolves
FetchSucceed(l, response) ==
    /\ loads[l].stage = "fetch"
    /\ Step(resumeTasks([World("fetchSucceed", <<>>) EXCEPT
                            !.st = fetchAndCacheSuccess(@, l, response),
                            !.ev = Settled("fetchSucceed", l, "entry")],
                        l, "entry", buildCacheEntry(response), 1))
    /\ UNCHANGED authVars

\* fetchProjectStatuses throws
FetchFail(l) ==
    /\ loads[l].stage = "fetch"
    /\ Step(resumeTasks([World("fetchFail", <<>>) EXCEPT
                            !.st = settle(@, l), !.ev = Settled("fetchFail", l, "rejected")],
                        l, "rejected", <<>>, 1))
    /\ UNCHANGED authVars

\* prefetchForProject goes on once getToken() has resolved
PrefetchCreds(t) ==
    /\ tasks[t].stage = "creds"
    /\ Step(prefetchForProject(World("prefetchCreds", tasks[t].key), t, token))
    /\ UNCHANGED authVars

Searching(t, i) ==
    /\ tasks[t].stage = "walk"
    /\ i \in 1..Len(tasks[t].warm)
    /\ tasks[t].warm[i] = "search"

Fetching(t, i) ==
    /\ tasks[t].stage = "walk"
    /\ i \in 1..Len(tasks[t].warm)
    /\ tasks[t].warm[i] = "transitions"

\* searchJiraIssues resolves with no issue
SearchNone(t, i) ==
    /\ Searching(t, i)
    /\ Step(endWarmup(World("searchNone", WarmupKey(tasks[t], i)), t, i, "none",
                      WarmupKey(tasks[t], i)))
    /\ UNCHANGED authVars

\* searchJiraIssues throws: findRepresentativeIssue returns undefined
SearchFail(t, i) ==
    /\ Searching(t, i)
    /\ Step(endWarmup(World("searchFail", WarmupKey(tasks[t], i)), t, i, "searchfail",
                      WarmupKey(tasks[t], i)))
    /\ UNCHANGED authVars

\* searchJiraIssues resolves with an issue: fetchIssueTransitions is issued
SearchFound(t, i, reported) ==
    /\ Searching(t, i)
    /\ tasks' = [tasks EXCEPT ![t].warm[i] = "transitions", ![t].rep[i] = reported,
                              ![t].out = MapSet(@, WarmupKey(tasks[t], i), "fetching")]
    /\ event' = Event("searchFound", WarmupKey(tasks[t], i))
    /\ UNCHANGED <<authVars, storeVars, tcache, pendingProjects, prefetchedKeys, batches, history,
                   panelVars>>

\* fetchIssueTransitions throws
TransitionsFail(t, i) ==
    /\ Fetching(t, i)
    /\ Step(endWarmup(World("transitionsFail", WarmupKey(tasks[t], i)), t, i, "transfail",
                      WarmupKey(tasks[t], i)))
    /\ UNCHANGED authVars

\* prefetchStatus marking the triple outside the length test
prefetchStatusFetchedMarksEmpty(W, t, i, transitions) ==
    LET task == W.pf.tasks[t]
        cacheKey == buildPrefetchKey(task.key, GroupIdentifier(task.groups[task.g]),
                                     trim(task.groups[task.g].statuses[i].name))
        stored == [W EXCEPT
                     !.tc = TransitionRemember(@,
                               [projectKey |-> task.key,
                                issueTypeId |-> GroupIdentifier(task.groups[task.g]),
                                statusName |-> task.rep[i]], transitions),
                     !.pf.prefetchedKeys = @ \cup {cacheKey}]
    IN  endWarmup(stored, t, i, IF Len(transitions) > 0 THEN "stored" ELSE "empty", cacheKey)

\* prefetchStatus after fetchIssueTransitions has resolved
prefetchStatusFetched(W, t, i, transitions) ==
    LET task == W.pf.tasks[t]
        cacheKey == WarmupKey(task, i)
        stored == [W EXCEPT
                     !.tc = TransitionRemember(@,
                               [projectKey |-> task.key,
                                issueTypeId |-> GroupIdentifier(task.groups[task.g]),
                                statusName |-> task.rep[i]], transitions),
                     !.pf.prefetchedKeys = @ \cup {cacheKey}]
    IN  IF Len(transitions) > 0
        THEN endWarmup(stored, t, i, "stored", cacheKey)
        ELSE endWarmup(W, t, i, "empty", cacheKey)

\* fetchIssueTransitions resolves
TransitionsFetched(t, i, transitions) ==
    /\ Fetching(t, i)
    /\ Step(prefetchStatusFetched(World("transitionsFetched", WarmupKey(tasks[t], i)),
                                  t, i, transitions))
    /\ UNCHANGED authVars

\* login(): credentials verified, secrets.store(token) done
LoginStoreToken ==
    /\ authPc = "idle"
    /\ token' = TRUE
    /\ authPc' = "login"
    /\ event' = Event("loginStoreToken", <<>>)
    /\ UNCHANGED <<authInfo, storeVars, tcache, prefetchVars, panelVars>>

\* logout(): secrets.delete(token) done
LogoutDeleteToken ==
    /\ authPc = "idle"
    /\ authInfo
    /\ token' = FALSE
    /\ authPc' = "logout"
    /\ event' = Event("logoutDeleteToken", <<>>)
    /\ UNCHANGED <<authInfo, storeVars, tcache, prefetchVars, panelVars>>

\* saveAuthInfo(info): globalState.update done
SaveAuthInfo ==
    /\ authPc \in {"login", "logout"}
    /\ authInfo' = (authPc = "login")
    /\ authPc' = "fire"
    /\ event' = Event("saveAuthInfo", <<>>)
    /\ UNCHANGED <<token, storeVars, tcache, prefetchVars, panelVars>>

\* saveAuthInfo(info): authChangeEmitter.fire() runs the handler of activate
FireAuthChange(selected) ==
    /\ authPc = "fire"
    /\ authPc' = "idle"
    /\ Step(onDidChangeAuth(World("authChange", <<>>), selected))
    /\ UNCHANGED <<authInfo, token>>

(***************************************************************************)
(* The status store with its callers and the auth manager alone: the       *)
(* prefetcher reaches the store through ensureAllIssueTypeStatuses with a  *)
(* lower-cased key, which Ensure covers.                                   *)
(***************************************************************************)
NextStore ==
    \/ \E k \in ProjectKeyInputs : Ensure(k)
    \/ \E k \in ProjectKeyInputs : Refresh(k)
    \/ \E l \in DOMAIN loads : LoadCredsMissing(l)
    \/ \E l \in DOMAIN loads : LoadIssueFetch(l)
    \/ \E l \in DOMAIN loads, r \in StatusResponses : FetchSucceed(l, r)
    \/ \E l \in DOMAIN loads : FetchFail(l)
    \/ LoginStoreToken
    \/ LogoutDeleteToken
    \/ SaveAuthInfo
    \/ \E sel \in { Undef, <<"P">> } : FireAuthChange(sel)

SpecStore == Init /\ [][NextStore]_vars

(***************************************************************************)
(* The status store when its callers only refresh: every load is awaited   *)
(* by a refresh.                                                           *)
(***************************************************************************)
NextRefresh ==
    \/ \E k \in ProjectKeyInputs : Refresh(k)
    \/ \E l \in DOMAIN loads : LoadCredsMissing(l)
    \/ \E l \in DOMAIN loads : LoadIssueFetch(l)
    \/ \E l \in DOMAIN loads, r \in StatusResponses : FetchSucceed(l, r)
    \/ \E l \in DOMAIN loads : FetchFail(l)
    \/ LoginStoreToken
    \/ LogoutDeleteToken
    \/ SaveAuthInfo
    \/ FireAuthChange(Undef)

SpecRefresh == Init /\ [][NextRefresh]_vars

(***************************************************************************)
(* The prefetcher over the two stores and the auth manager, while no       *)
(* project is focused (the handler of activate warms nothing) and the      *)
(* project's statuses are those of Response1.                              *)
(***************************************************************************)
NextPrefetch ==
    \/ \E k \in ProjectKeyInputs : Prefetch(k)
    \/ \E l \in DOMAIN loads : LoadCredsMissing(l)
    \/ \E l \in DOMAIN loads : LoadIssueFetch(l)
    \/ \E l \in DOMAIN loads : FetchSucceed(l, Response1)
    \/ \E l \in DOMAIN loads : FetchFail(l)
    \/ \E t \in DOMAIN tasks : PrefetchCreds(t)
    \/ \E t \in DOMAIN tasks, i \in 1..2 : SearchNone(t, i)
    \/ \E t \in DOMAIN tasks, i \in 1..2 : SearchFail(t, i)
    \/ \E t \in DOMAIN tasks, i \in 1..2, s \in { TODO, DONE } : SearchFound(t, i, s)
    \/ \E t \in DOMAIN tasks, i \in 1..2 : TransitionsFail(t, i)
    \/ \E t \in DOMAIN tasks, i \in 1..2, ts \in { <<>>, ListA } : TransitionsFetched(t, i, ts)
    \/ LoginStoreToken
    \/ LogoutDeleteToken
    \/ SaveAuthInfo
    \/ FireAuthChange(Undef)

SpecPrefetch == Init /\ [][NextPrefetch]_vars

(***************************************************************************)
(* The transition cache alone, called directly.                            *)
(***************************************************************************)
\* key parts: spellings of one triple, the triples that differ from it in
\* one part, and malformed ones
PartsInputs ==
    { Parts(<<"P">>, TaskId, TODO),
      Parts(<<"p", " ">>, TaskId, <<" ", "T", "O", " ", "D", "O", " ">>),
      Parts(<<"Q">>, TaskId, TODO),
      Parts(<<"P">>, BugName, TODO),
      Parts(<<"P">>, <<"b", "u", "g">>, <<"T", "O", " ", "D", "O">>),
      Parts(<<"P">>, TaskId, DONE),
      Parts(Undef, TaskId, TODO),
      Parts(<<"P">>, Undef, TODO),
      Parts(<<"P">>, TaskId, Undef),
      Parts(<<" ">>, TaskId, TODO),
      Parts(<<"P">>, <<" ">>, TODO),
      Parts(<<"P">>, TaskId, <<" ", " ">>) }

\* remember(parts, transitions)
Remember(parts, transitions) ==
    /\ tcache' = TransitionRemember(tcache, parts, transitions)
    /\ event' = [Event("remember", buildKey(parts)) EXCEPT
                    !.parts = parts,
                    !.value = transitions,
                    !.res = IF TransitionGet(tcache, parts) = Undef THEN "new"
                            ELSE IF TransitionGet(tcache, parts) = transitions THEN "same"
                            ELSE "other"]
    /\ UNCHANGED <<authVars, storeVars, prefetchVars, panelVars>>

\* clear()
ClearTransitions ==
    /\ tcache' = TransitionClear(tcache)
    /\ event' = Event("clearTransitions", <<>>)
    /\ UNCHANGED <<authVars, storeVars, prefetchVars, panelVars>>

NextTransitions ==
    \/ \E parts \in PartsInputs, ts \in { Undef, <<>>, ListA, ListB } : Remember(parts, ts)
    \/ ClearTransitions

SpecTransitions == Init /\ [][NextTransitions]_vars

(***************************************************************************)
(* The issue details panel: openIssueDetails, the handlers of its          *)
(* messages, and their continuations.                                      *)
(***************************************************************************)
\* the open panel handles one more command or message
Message ==
    /\ messages < MaxMessages
    /\ messages' = messages + 1

\* the stores as a step of the controller finds them

\* a step of the controller: W is the stores after it, didRender tells that
\* it called renderIssuePanelContent
PanelStep(W, ps, rd, pr, didRender) ==
    /\ UNCHANGED remoteStatus
    /\ WithinBounds(W)
    /\ SetWorld([W EXCEPT !.ev.res = IF didRender THEN "rendered" ELSE "none"])
    /\ panelState' = ps
    /\ rendered' = rd
    /\ procs' = pr
    /\ UNCHANGED authVars

\* the invocation in slot p returns
Return(pr, p) == [pr EXCEPT ![p] = FreeProc]

\* history: a live transitions fetch has ended
LiveFetchEnded(pr) ==
    [p \in DOMAIN pr |->
        IF pr[p].kind = "status" /\ pr[p].pc \in {"issue", "transitions"}
        THEN [pr[p] EXCEPT !.live = TRUE] ELSE pr[p]]

\* an invocation is suspended at its first await
Suspend(pr, kind, pc, arg) ==
    [pr EXCEPT ![Lowest({p \in DOMAIN pr : pr[p].kind = "none"})] =
        [FreeProc EXCEPT !.kind = kind, !.pc = pc, !.arg = arg]]

\* loadIssueDetails() up to its first await: [ps, rd]
loadIssueDetails(ps) ==
    LET loading == [ps EXCEPT !.loadingIssue = TRUE]
    IN  [ps |-> loading,
         rd |-> renderPanel(loading, Options(Undef, IF ps.transitions = Undef THEN True ELSE False, Undef))]

\* openIssueDetails(issueOrKey)
OpenIssueDetails(in) ==
    LET W == World("panel", <<>>)
    IN  IF in.key = Undef \/ Len(in.key) = 0
        THEN /\ PanelStep(W, panelState, rendered, procs, FALSE)
             /\ UNCHANGED <<openIssuePanels, panels, disposed, messages>>
        ELSE IF in.key \in openIssuePanels
        THEN \* existingEntry.refresh()
             /\ Message
             /\ Cardinality(FreeProcs) >= 2
             /\ LET l == loadIssueDetails(panelState)
                IN  PanelStep(W, l.ps, l.rd,
                              Suspend(Suspend(procs, "load", "authInfo", <<>>),
                                      "comments", "authInfo", <<>>),
                              TRUE)
             /\ UNCHANGED <<openIssuePanels, panels, disposed>>
        ELSE \* a new panel with its own panelState and disposed flag; the key is
             \* opened again once the handlers of the closed panel have returned
             /\ disposed => \A p \in DOMAIN procs : procs[p].kind = "none"
             /\ panels.created < MaxPanels
             /\ Cardinality(FreeProcs) >= 2
             /\ LET issueProjectKey == deriveProjectKeyFromIssueKey(in.key)
                    cachedTransitions ==
                        IF in.isObject /\ issueProjectKey # Undef
                        THEN TransitionGet(tcache, transitionCacheKey(issueProjectKey, in.issue))
                        ELSE Undef
                    cachedStatuses ==
                        IF issueProjectKey # Undef
                        THEN statusPrefillFor(StoreState, issueProjectKey,
                                              IssueTypeCriteria(in.issue))
                        ELSE Undef
                    warmed == IF issueProjectKey # Undef
                              THEN warmProjectCaches(W, issueProjectKey) ELSE W
                    ps == [NoPanelState EXCEPT
                              !.issue = IF in.isObject THEN in.issue
                                        ELSE createPlaceholderIssue(in.key),
                              !.transitions = cachedTransitions,
                              !.statusPrefill = cachedStatuses]
                    l == loadIssueDetails(ps)
                IN  PanelStep(warmed, l.ps, l.rd,
                              Suspend(Suspend(procs, "comments", "authInfo", <<>>),
                                      "load", "authInfo", <<>>),
                              TRUE)
             /\ openIssuePanels' = openIssuePanels \cup {in.key}
             /\ panels' = [created |-> panels.created + 1, live |-> panels.live + 1]
             /\ disposed' = FALSE
             /\ UNCHANGED messages

\* panel.onDidDispose without openIssuePanels.delete(resolvedIssueKey)
DisposeKeepsEntry ==
    /\ IssueKey \in openIssuePanels
    /\ panels.live > 0
    /\ disposed' = TRUE
    /\ panels' = [panels EXCEPT !.live = @ - 1]
    /\ event' = Event("panel", <<>>)
    /\ UNCHANGED <<authVars, storeVars, tcache, prefetchVars, openIssuePanels, panelState,
                   rendered, procs, remoteStatus, messages>>

\* panel.onDidDispose: the user closes the panel
Dispose ==
    /\ IssueKey \in openIssuePanels
    /\ disposed' = TRUE
    /\ openIssuePanels' = openIssuePanels \ {IssueKey}
    /\ panels' = [panels EXCEPT !.live = @ - 1]
    /\ event' = Event("panel", <<>>)
    /\ UNCHANGED <<authVars, storeVars, tcache, prefetchVars, panelState, rendered, procs,
                   remoteStatus, messages>>

\* what a handler does when authManager.getAuthInfo() / getToken() gave
\* nothing: [ps, rd, didRender]
credentialsMissing(kind, ps, rd) ==
    IF kind = "load"
    THEN IF ~disposed
         THEN LET loaded == [ps EXCEPT !.loadingIssue = FALSE]
              IN  [ps |-> loaded, rd |-> renderPanel(loaded, NoOptions), didRender |-> TRUE]
         ELSE [ps |-> ps, rd |-> rd, didRender |-> FALSE]
    ELSE IF kind = "comments"
    THEN LET failed == [ps EXCEPT !.comments = Undef,
                                  !.commentsError = <<"Log in to Jira to view comments.">>,
                                  !.commentsLoading = FALSE]
         IN  [ps |-> failed, rd |-> renderPanel(failed, NoOptions), didRender |-> TRUE]
    ELSE [ps |-> ps, rd |-> rd, didRender |-> FALSE]

\* what a handler does between its credentials and its first request:
\* [ps, rd, pc, didRender]
beforeRequest(proc, ps, rd) ==
    IF proc.kind = "load"
    THEN [ps |-> ps, rd |-> rd, pc |-> "issue", didRender |-> FALSE]
    ELSE IF proc.kind = "status"
    THEN [ps |-> ps, rd |-> renderPanel(ps, Options(ps.transitions, True, Undef)),
          pc |-> "transition", didRender |-> TRUE]
    ELSE IF proc.kind = "assignee"
    THEN [ps |-> ps, rd |-> renderPanel(ps, Options(ps.transitions, Undef, Undef)),
          pc |-> "assign", didRender |-> TRUE]
    ELSE IF proc.kind = "search"
    THEN [ps |-> ps, rd |-> renderPanel(ps, Options(ps.transitions, Undef, Undef)),
          pc |-> "users", didRender |-> TRUE]
    ELSE IF proc.kind = "comments"
    THEN LET loading == [ps EXCEPT !.commentsLoading = TRUE]
         IN  [ps |-> loading, rd |-> renderPanel(loading, NoOptions),
              pc |-> "comments", didRender |-> TRUE]
    ELSE IF proc.kind = "add"
    THEN LET submitting == [ps EXCEPT !.commentDraft = proc.arg,
                                      !.commentFormat = "plain",
                                      !.commentSubmitPending = TRUE,
                                      !.commentSubmitError = Undef]
         IN  [ps |-> submitting, rd |-> renderPanel(submitting, NoOptions),
              pc |-> "add", didRender |-> TRUE]
    ELSE LET deleting == [ps EXCEPT !.commentDeletingId = proc.arg]
         IN  [ps |-> deleting, rd |-> renderPanel(deleting, NoOptions),
              pc |-> "delete", didRender |-> TRUE]

\* await authManager.getAuthInfo() of a handler resolves
GetAuthInfoResolved(p) ==
    /\ procs[p].pc = "authInfo"
    /\ LET W == World("panel", <<>>)
           kind == procs[p].kind
       IN  IF kind = "load" /\ ~authInfo
           THEN LET m == credentialsMissing(kind, panelState, rendered)
                IN  PanelStep(W, m.ps, m.rd, Return(procs, p), m.didRender)
           ELSE PanelStep(W, panelState, rendered,
                          [procs EXCEPT ![p].pc = "token", ![p].authInfo = authInfo], FALSE)
    /\ UNCHANGED <<openIssuePanels, panels, disposed, messages>>

\* await authManager.getToken() of a handler resolves
GetTokenResolved(p) ==
    /\ procs[p].pc = "token"
    /\ LET W == World("panel", <<>>)
           kind == procs[p].kind
       IN  IF ~procs[p].authInfo \/ ~token
           THEN LET m == credentialsMissing(kind, panelState, rendered)
                IN  PanelStep(W, m.ps, m.rd, Return(procs, p), m.didRender)
           ELSE LET b == beforeRequest(procs[p], panelState, rendered)
                IN  PanelStep(W, b.ps, b.rd, [procs EXCEPT ![p].pc = b.pc], b.didRender)
    /\ UNCHANGED <<openIssuePanels, panels, disposed, messages>>

\* loadIssueDetails / handleStatusChange once resolveIssueTransitions has
\* returned result = [transitions, error]: [ps, rd, didRender]
applyTransitions(kind, W, ps, rd, issue, result) ==
    IF disposed THEN [ps |-> ps, rd |-> rd, didRender |-> FALSE]
    ELSE LET projectKey == deriveProjectKeyFromIssueKey(issue.key)
             applied == [ps EXCEPT
                 !.issue = issue,
                 !.transitions = result.transitions,
                 !.statusPrefill =
                     IF projectKey # Undef
                     THEN statusPrefillFor(W.st, projectKey, IssueTypeCriteria(issue))
                     ELSE @,
                 !.loadingIssue = IF kind = "load" THEN FALSE ELSE @]
         IN  [ps |-> applied,
              rd |-> renderPanel(applied,
                        Options(Coalesce(applied.transitions, applied.statusPrefill), False,
                                IF result.error THEN <<"Unable to load available statuses">> ELSE Undef)),
              didRender |-> TRUE]

\* the catch block of a handler whose request threw: [ps, rd, didRender]
catch(kind, ps, rd) ==
    IF kind \in {"load", "status", "assignee", "search"}
    THEN IF disposed THEN [ps |-> ps, rd |-> rd, didRender |-> FALSE]
         ELSE IF kind = "load"
         THEN LET loaded == [ps EXCEPT !.loadingIssue = FALSE]
              IN  [ps |-> loaded, rd |-> renderPanel(loaded, NoOptions), didRender |-> TRUE]
         ELSE IF kind = "status"
         THEN [ps |-> ps,
               rd |-> renderPanel(ps, Options(ps.transitions, Undef, FailedToUpdate)),
               didRender |-> TRUE]
         ELSE [ps |-> ps,
               rd |-> renderPanel(ps, Options(ps.transitions, Undef, Undef)),
               didRender |-> TRUE]
    ELSE IF kind = "comments"
    THEN IF disposed THEN [ps |-> ps, rd |-> rd, didRender |-> FALSE]
         ELSE LET failed == [ps EXCEPT !.commentsError = <<"Failed to load comments">>,
                                       !.commentsLoading = FALSE]
              IN  [ps |-> failed, rd |-> renderPanel(failed, NoOptions), didRender |-> TRUE]
    ELSE IF kind = "add"
    THEN LET failed == [ps EXCEPT !.commentSubmitPending = FALSE,
                                  !.commentSubmitError = <<"Failed to add comment">>]
         IN  [ps |-> failed, rd |-> renderPanel(failed, NoOptions), didRender |-> TRUE]
    ELSE LET failed == [ps EXCEPT !.commentDeletingId = Undef,
                                  !.commentsError = <<"Failed to delete comment">>]
         IN  [ps |-> failed, rd |-> renderPanel(failed, NoOptions), didRender |-> TRUE]

\* fetchIssueDetails of loadIssueDetails, handleStatusChange or
\* handleAssigneeChange resolves
FetchIssueDetailsResolved(p) ==
    /\ procs[p].pc = "issue"
    /\ LET kind == procs[p].kind
           issue == RemoteIssue(remoteStatus)
           W == World("panel", <<>>)
           projectKey == deriveProjectKeyFromIssueKey(issue.key)
           warmed == IF projectKey # Undef THEN warmProjectCaches(W, projectKey) ELSE W
           \* loadIssueDetails uses the cache, handleStatusChange passes useCache: false
           cached == resolveIssueTransitions(tcache, projectKey, issue, kind = "load")
       IN  IF kind = "assignee"
           THEN IF disposed THEN PanelStep(W, panelState, rendered, Return(procs, p), FALSE)
                ELSE LET ps == [panelState EXCEPT !.issue = issue]
                     IN  PanelStep(W, ps,
                                   renderPanel(ps, Options(ps.transitions, Undef, Undef)),
                                   Return(procs, p), TRUE)
           ELSE IF cached # Undef
           THEN \* resolveIssueTransitions answers from the transition cache
                LET a == applyTransitions(kind, warmed, panelState, rendered, issue,
                                          [transitions |-> cached, error |-> FALSE])
                IN  PanelStep(warmed, a.ps, a.rd, Return(procs, p), a.didRender)
           ELSE PanelStep(warmed, panelState, rendered,
                          [procs EXCEPT ![p].pc = "transitions", ![p].issue = issue], FALSE)
    /\ UNCHANGED <<openIssuePanels, panels, disposed, messages>>

\* a request of a handler throws
RequestRejected(p) ==
    /\ procs[p].pc \in {"issue", "transition", "assign", "users", "comments", "add", "delete"}
    /\ LET c == catch(procs[p].kind, panelState, rendered)
       IN  PanelStep(World("panel", <<>>), c.ps, c.rd, Return(procs, p), c.didRender)
    /\ UNCHANGED <<openIssuePanels, panels, disposed, messages>>

\* fetchIssueTransitions of resolveIssueTransitions resolves
FetchIssueTransitionsResolved(p, fetchedTransitions) ==
    /\ procs[p].pc = "transitions"
    /\ LET issue == procs[p].issue
           projectKey == deriveProjectKeyFromIssueKey(issue.key)
           W == [World("panel", <<>>) EXCEPT
                    !.tc = IF Len(fetchedTransitions) > 0
                           THEN TransitionRemember(@, transitionCacheKey(projectKey, issue),
                                                   fetchedTransitions)
                           ELSE @]
           a == applyTransitions(procs[p].kind, W, panelState, rendered, issue,
                                 [transitions |-> fetchedTransitions, error |-> FALSE])
       IN  PanelStep(W, a.ps, a.rd, LiveFetchEnded(Return(procs, p)), a.didRender)
    /\ UNCHANGED <<openIssuePanels, panels, disposed, messages>>

\* fetchIssueTransitions of resolveIssueTransitions throws
FetchIssueTransitionsRejected(p) ==
    /\ procs[p].pc = "transitions"
    /\ LET W == World("panel", <<>>)
           a == applyTransitions(procs[p].kind, W, panelState, rendered, procs[p].issue,
                                 [transitions |-> Undef, error |-> TRUE])
       IN  PanelStep(W, a.ps, a.rd, LiveFetchEnded(Return(procs, p)), a.didRender)
    /\ UNCHANGED <<openIssuePanels, panels, disposed, messages>>

\* a message of the webview starts a handler that suspends at getAuthInfo()
Handle(kind, arg) ==
    /\ IssueKey \in openIssuePanels
    /\ FreeProcs # {}
    /\ Message
    /\ PanelStep(World("panel", <<>>), panelState, rendered,
                 Suspend(procs, kind, "authInfo", arg), FALSE)
    /\ UNCHANGED <<openIssuePanels, panels, disposed>>

\* the message changeStatus: handleStatusChange(transitionId); the webview
\* posts it from an enabled status select
HandleStatusChange(transitionId) ==
    /\ ControlEnabled(rendered)
    /\ IssueKey \in openIssuePanels
    /\ FreeProcs # {}
    /\ Message
    /\ PanelStep(World("panel", <<>>), panelState, rendered,
                 [Suspend(procs, "status", "authInfo", transitionId) EXCEPT
                     ![Lowest(FreeProcs)].shown = rendered.statusOptions],
                 FALSE)
    /\ UNCHANGED <<openIssuePanels, panels, disposed>>

\* transitionIssueStatus resolves
TransitionIssueStatusResolved(p) ==
    /\ procs[p].pc = "transition"
    /\ remoteStatus' = IF remoteStatus = TODO THEN DONE ELSE TODO
    /\ WithinBounds(World("panel", <<>>))
    /\ SetWorld(World("panel", <<>>))
    /\ procs' = [procs EXCEPT ![p].pc = "issue"]
    /\ UNCHANGED <<authVars, openIssuePanels, panels, disposed, panelState, rendered, messages>>

\* the message changeAssignee: handleAssigneeChange(accountId)
HandleAssigneeChange == Handle("assignee", <<>>)

\* assignIssue resolves
AssignIssueResolved(p) ==
    /\ procs[p].pc = "assign"
    /\ PanelStep(World("panel", <<>>), panelState, rendered,
                 [procs EXCEPT ![p].pc = "issue"], FALSE)
    /\ UNCHANGED <<openIssuePanels, panels, disposed, messages>>

\* the message loadAssignees: handleAssigneeSearch(query, force)
HandleAssigneeSearch(query, force) ==
    LET normalizedQuery == trim(query)
    IN  IF ~force /\ normalizedQuery = panelState.assigneeQuery
                  /\ panelState.assignableUsers # Undef
        THEN /\ IssueKey \in openIssuePanels
             /\ Message
             /\ PanelStep(World("panel", <<>>), panelState, rendered, procs, FALSE)
             /\ UNCHANGED <<openIssuePanels, panels, disposed>>
        ELSE Handle("search", normalizedQuery)

\* fetchAssignableUsers resolves
FetchAssignableUsersResolved(p, users) ==
    /\ procs[p].pc = "users"
    /\ IF disposed
       THEN PanelStep(World("panel", <<>>), panelState, rendered,
                      Return(procs, p), FALSE)
       ELSE LET ps == [panelState EXCEPT !.assignableUsers = users,
                                         !.assigneeQuery = procs[p].arg]
            IN  PanelStep(World("panel", <<>>), ps,
                          renderPanel(ps, Options(ps.transitions, Undef, Undef)),
                          Return(procs, p), TRUE)
    /\ UNCHANGED <<openIssuePanels, panels, disposed, messages>>

\* the message refreshComments: refreshComments(true)
RefreshComments == Handle("comments", <<>>)

\* fetchIssueComments resolves
FetchIssueCommentsResolved(p, comments) ==
    /\ procs[p].pc = "comments"
    /\ IF disposed
       THEN PanelStep(World("panel", <<>>), panelState, rendered,
                      Return(procs, p), FALSE)
       ELSE LET ps == [panelState EXCEPT !.comments = comments,
                                         !.commentsError = Undef,
                                         !.commentsLoading = FALSE]
            IN  PanelStep(World("panel", <<>>), ps, renderPanel(ps, NoOptions),
                          Return(procs, p), TRUE)
    /\ UNCHANGED <<openIssuePanels, panels, disposed, messages>>

\* await refreshComments(true) at the end of handleAddComment and
\* handleDeleteComment: the invocation goes on as a refreshComments
refreshCommentsAfter(pr, p) ==
    IF disposed THEN Return(pr, p)
    ELSE [pr EXCEPT ![p] = [FreeProc EXCEPT !.kind = "comments", !.pc = "authInfo"]]

\* the message addComment: handleAddComment(body, format)
HandleAddComment(body) ==
    LET trimmedBody == trim(body)
    IN  IF Len(trimmedBody) = 0
        THEN /\ IssueKey \in openIssuePanels
             /\ Message
             /\ LET ps == [panelState EXCEPT
                              !.commentSubmitError = <<"Comment cannot be empty.">>]
                IN  PanelStep(World("panel", <<>>), ps, renderPanel(ps, NoOptions), procs, TRUE)
             /\ UNCHANGED <<openIssuePanels, panels, disposed>>
        ELSE Handle("add", trimmedBody)

\* addIssueComment resolves
AddIssueCommentResolved(p) ==
    /\ procs[p].pc = "add"
    /\ LET ps == [panelState EXCEPT !.commentDraft = <<>>,
                                    !.commentSubmitPending = FALSE,
                                    !.commentSubmitError = Undef]
       IN  PanelStep(World("panel", <<>>), ps, renderPanel(ps, NoOptions),
                     refreshCommentsAfter(procs, p), TRUE)
    /\ UNCHANGED <<openIssuePanels, panels, disposed, messages>>

\* the message deleteComment: handleDeleteComment(commentId), suspended at
\* the confirmation dialog
HandleDeleteComment(commentId) ==
    /\ IssueKey \in openIssuePanels
    /\ FreeProcs # {}
    /\ Message
    /\ PanelStep(World("panel", <<>>), panelState, rendered,
                 Suspend(procs, "delete", "confirm", commentId), FALSE)
    /\ UNCHANGED <<openIssuePanels, panels, disposed>>

\* showWarningMessage resolves
ConfirmationResolved(p, confirmed) ==
    /\ procs[p].pc = "confirm"
    /\ PanelStep(World("panel", <<>>), panelState, rendered,
                 IF confirmed THEN [procs EXCEPT ![p].pc = "authInfo"] ELSE Return(procs, p),
                 FALSE)
    /\ UNCHANGED <<openIssuePanels, panels, disposed, messages>>

\* deleteIssueComment resolves
DeleteIssueCommentResolved(p) ==
    /\ procs[p].pc = "delete"
    /\ LET ps == [panelState EXCEPT !.commentDeletingId = Undef]
       IN  PanelStep(World("panel", <<>>), ps, renderPanel(ps, NoOptions),
                     refreshCommentsAfter(procs, p), TRUE)
    /\ UNCHANGED <<openIssuePanels, panels, disposed, messages>>

(***************************************************************************)
(* The status control of the issue panel with the two stores behind it:    *)
(* the panel stays open, the handlers that load the issue, change its      *)
(* status and refresh the comments run.  The user is logged in or not for  *)
(* the whole run; the status loads the controller starts run, the prefetch *)
(* task it starts stays at its first await.                                *)
(***************************************************************************)
NextPanel ==
    \/ \E in \in IssueOrKeyInputs : OpenIssueDetails(in)
    \/ \E p \in DOMAIN procs : GetAuthInfoResolved(p)
    \/ \E p \in DOMAIN procs : GetTokenResolved(p)
    \/ \E p \in DOMAIN procs : FetchIssueDetailsResolved(p)
    \/ \E p \in DOMAIN procs : RequestRejected(p)
    \/ \E p \in DOMAIN procs, ts \in { <<>>, RemoteTransitions(remoteStatus) } :
          FetchIssueTransitionsResolved(p, ts)
    \/ \E p \in DOMAIN procs : FetchIssueTransitionsRejected(p)
    \/ \E id \in { <<"11">> } : HandleStatusChange(id)
    \/ \E p \in DOMAIN procs : TransitionIssueStatusResolved(p)
    \/ \E p \in DOMAIN procs : FetchIssueCommentsResolved(p, <<"c1">>)
    \/ \E l \in DOMAIN loads : LoadCredsMissing(l)
    \/ \E l \in DOMAIN loads : LoadIssueFetch(l)
    \/ \E l \in DOMAIN loads : FetchSucceed(l, Response1)
    \/ \E l \in DOMAIN loads : FetchFail(l)

SpecPanel == Init /\ [][NextPanel]_vars

(***************************************************************************)
(* The issue panel and its disposal: every handler of the panel runs, the  *)
(* panel can be closed at any moment.                                      *)
(***************************************************************************)
NextDispose ==
    \/ \E in \in IssueOrKeyInputs : OpenIssueDetails(in)
    \/ Dispose
    \/ \E p \in DOMAIN procs : GetAuthInfoResolved(p)
    \/ \E p \in DOMAIN procs : GetTokenResolved(p)
    \/ \E p \in DOMAIN procs : FetchIssueDetailsResolved(p)
    \/ \E p \in DOMAIN procs : RequestRejected(p)
    \/ \E p \in DOMAIN procs :
          FetchIssueTransitionsResolved(p, RemoteTransitions(remoteStatus))
    \/ \E p \in DOMAIN procs : FetchIssueTransitionsRejected(p)
    \/ \E id \in { <<"11">> } : HandleStatusChange(id)
    \/ \E p \in DOMAIN procs : TransitionIssueStatusResolved(p)
    \/ HandleAssigneeChange
    \/ \E p \in DOMAIN procs : AssignIssueResolved(p)
    \/ \E q \in { <<"q", " ">> }, force \in BOOLEAN : HandleAssigneeSearch(q, force)
    \/ \E p \in DOMAIN procs : FetchAssignableUsersResolved(p, <<"u1">>)
    \/ RefreshComments
    \/ \E p \in DOMAIN procs : FetchIssueCommentsResolved(p, <<"c1">>)
    \/ \E body \in { <<" ">>, <<"h", " ">> } : HandleAddComment(body)
    \/ \E p \in DOMAIN procs : AddIssueCommentResolved(p)
    \/ \E id \in { <<"c1">> } : HandleDeleteComment(id)
    \/ \E p \in DOMAIN procs, confirmed \in BOOLEAN : ConfirmationResolved(p, confirmed)
    \/ \E p \in DOMAIN procs : DeleteIssueCommentResolved(p)

SpecDispose == Init /\ [][NextDispose]_vars

(***************************************************************************)
(* prefetchIssues: the batches of the prefetcher while the user logs in    *)
(* and out.                                                                *)
(***************************************************************************)
\* prefetchIssues(projectKey, issues); a missing list is the empty one
PrefetchIssues(projectKey, issues) ==
    LET normalized == normalizeProjectKey(projectKey)
        W == World("prefetchIssues", projectKey)
        free == {b \in DOMAIN batches : batches[b].stage = "free"}
    IN  /\ Step(IF normalized = Undef \/ Len(issues) = 0 THEN W
                ELSE IF free = {} THEN [W EXCEPT !.pf.overflow = TRUE]
                ELSE [W EXCEPT !.pf.batches[Lowest(free)] =
                                  [FreeBatch EXCEPT !.key = normalized, !.stage = "creds",
                                                    !.authInfo = authInfo,
                                                    !.issues = issues],
                               !.ev.res = "started"])
        /\ UNCHANGED authVars

\* prefetchTransitionsForIssues goes on once getToken() has resolved
IssuesCreds(b) ==
    /\ batches[b].stage = "creds"
    /\ Step(prefetchTransitionsForIssues(
                [World("issuesCreds", batches[b].key) EXCEPT !.ev.res = "fanned"], b, token))
    /\ UNCHANGED authVars

\* fetchIssueTransitions(issue.key) of prefetchIssueTransitions settles:
\* it throws (result undefined) or resolves with a list
IssueTransitionsSettled(b, i, result) ==
    LET batch == batches[b]
        issue == batch.issues[i]
        id == OptTrim(issue.issueTypeId)
        cacheKey == buildPrefetchKey(batch.key,
                                     IF id # Undef /\ Len(id) > 0 THEN id
                                     ELSE OptTrim(issue.issueTypeName),
                                     OptTrim(issue.statusName))
        parts == Parts(batch.key, GroupIdentifier(issue), OptTrim(issue.statusName))
        fetch == [batch.fetch EXCEPT ![i] = "done"]
        W0 == [World("issueSettled", cacheKey) EXCEPT
                  !.pf.batches[b] = IF \A j \in DOMAIN fetch : fetch[j] # "fetch"
                                    THEN FreeBatch ELSE [batch EXCEPT !.fetch = fetch],
                  !.ev.res = IF result = Undef THEN "threw"
                             ELSE IF Len(result) > 0 THEN "stored" ELSE "empty"]
    IN  /\ batch.stage = "fetch"
        /\ i \in DOMAIN batch.fetch
        /\ batch.fetch[i] = "fetch"
        /\ Step(IF result # Undef /\ Len(result) > 0
                THEN [W0 EXCEPT !.tc = TransitionRemember(@, parts, result),
                                !.pf.prefetchedKeys = @ \cup {cacheKey}]
                ELSE W0)
        /\ UNCHANGED authVars

NextIssues ==
    LET noKey == [IssueTodo EXCEPT !.key = Undef]
        noType == [IssueTodo EXCEPT !.issueTypeId = <<" ">>, !.issueTypeName = Undef]
        blankStatus == [IssueTodo EXCEPT !.statusName = <<" ">>]
        byName == [IssueTodo EXCEPT !.issueTypeId = Undef]
    IN  \/ \E k \in { <<"P">>, Undef },
              issues \in { <<>>, <<IssueTodo, IssueTodo>>,
                           <<IssueTodo, noKey, noType, blankStatus, RemoteIssue(DONE),
                             noKey, noKey, noKey, noKey, noKey, byName>> } :
              PrefetchIssues(k, issues)
        \/ \E b \in DOMAIN batches : IssuesCreds(b)
        \/ \E b \in DOMAIN batches, i \in 1..ISSUE_LIMIT_PER_PREFETCH + 1,
              result \in { Undef, <<>>, ListA } :
              IssueTransitionsSettled(b, i, result)
        \/ LoginStoreToken
        \/ LogoutDeleteToken
        \/ SaveAuthInfo
        \/ FireAuthChange(Undef)

SpecIssues == Init /\ [][NextIssues]_vars

(***************************************************************************)
(* The start of passes and batches while the user logs in and out: the     *)
(* status loads the passes wait for stay outstanding.                      *)
(***************************************************************************)
NextCredentials ==
    \/ Prefetch(<<"P">>)
    \/ \E t \in DOMAIN tasks : PrefetchCreds(t)
    \/ PrefetchIssues(<<"P">>, <<IssueTodo>>)
    \/ \E b \in DOMAIN batches : IssuesCreds(b)
    \/ \E b \in DOMAIN batches : IssueTransitionsSettled(b, 1, ListA)
    \/ LoginStoreToken
    \/ LogoutDeleteToken
    \/ SaveAuthInfo
    \/ FireAuthChange(Undef)

SpecCredentials == Init /\ [][NextCredentials]_vars

(***************************************************************************)
(* Properties of the status store (SpecStore)                              *)
(***************************************************************************)
\* C1: the calls ensure(P) / ensureAllIssueTypeStatuses(P) made for one key
\* since the last clear(), while the load the first of them started has not
\* completed, are all served by one load: at most one remote status fetch is
\* outstanding for them.
C1_CallsShareOneFetch ==
    \A k \in DOMAIN window :
        Cardinality({l \in window[k] : loads[l].stage = "fetch"}) <= 1

\* C2: under any interleaving of ensure, ensureAllIssueTypeStatuses, refresh,
\* clear and completions, at most one remote status fetch per project key is
\* outstanding.
C2_OneFetchPerKey ==
    \A l1, l2 \in DOMAIN loads :
        (loads[l1].stage = "fetch" /\ loads[l2].stage = "fetch"
            /\ loads[l1].key = loads[l2].key) => l1 = l2

C8_UndefinedWhileLoggedOut ==
    (~authInfo \/ ~token) => \A k \in ProjectKeyInputs : ~ensureEntry(StoreState, k).hit

\* C8, amended: a load that finds the auth info or the token missing when it
\* checks resolves its callers to undefined, writes no cache entry and no
\* issue-type slot and leaves no pending marker for its key; and a load whose
\* credentials are missing issues no remote fetch.
C8_MissingCredentialsLoad ==
    [][\A l \in DOMAIN loads :
          /\ (event'.op = "credsMissing" /\ LoadCredsMissing(l)) =>
                /\ event'.res = "undef"
                /\ cache' = cache
                /\ issueTypeCache' = issueTypeCache
                /\ ~MapHas(pending', loads[l].key)
                /\ loads'[l] = FreeLoad
          /\ (loads[l].stage = "creds" /\ loads'[l].stage = "fetch") =>
                (loads[l].authInfo /\ token)]_vars

C8_Witness ==
    /\ event.op = "credsMissing"
    /\ event.res = "undef"
    /\ ~MapHas(cache, event.key)
    /\ ~MapHas(pending, event.key)

(***************************************************************************)
(* Properties of the transition cache (SpecTransitions)                    *)
(***************************************************************************)
\* C3 as stated: the transition cache is write-once, a key that holds a list
\* keeps that list when remember is called for it again.
C3_WriteOnce ==
    [][\A k \in DOMAIN tcache : MapHas(tcache', k) => tcache'[k] = tcache[k]]_vars

\* C3, amended: the last non-empty write wins.  remember(parts, B) with a
\* valid key and a non-empty B leaves get(parts) = B whatever the key held;
\* a call with a malformed key or an empty list changes nothing; and no
\* remember removes a key or touches another key's list.
C3_LastWriteWins ==
    [][event'.op = "remember" =>
          /\ \A parts \in PartsInputs :
                (buildKey(parts) = event'.key /\ event'.key # Undef
                    /\ event'.value # Undef /\ Len(event'.value) > 0)
                    => TransitionGet(tcache', parts) = event'.value
          /\ (event'.key = Undef \/ event'.value = Undef \/ Len(event'.value) = 0)
                => tcache' = tcache
          /\ \A k \in DOMAIN tcache :
                MapHas(tcache', k) /\ (k # event'.key => tcache'[k] = tcache[k])]_vars

C3_Witness ==
    /\ event.op = "remember"
    /\ event.res = "other"
    /\ event.value = ListB
    /\ MapHas(tcache, event.key)
    /\ tcache[event.key] = ListB

(***************************************************************************)
(* Properties of the prefetcher and of the handler of activate             *)
(* (SpecPrefetch)                                                          *)
(***************************************************************************)
Running(t) == tasks[t].stage # "free"

CriteriaInputs ==
    [issueTypeId : { TaskId, Undef }, issueTypeName : { TaskName, BugName, Undef }]

\* C4: when the auth-change handler has cleared both stores, get(projectKey),
\* getIssueTypeStatuses(projectKey, criteria) and the transition cache's
\* get(parts) return nothing, whatever was cached before.
C4_ClearedStoresReturnNothing ==
    event.op = "authChange" =>
        /\ \A k \in ProjectKeyInputs : ~StoreGet(StoreState, k).found
        /\ \A k \in ProjectKeyInputs, c \in CriteriaInputs :
              ~getIssueTypeStatuses(StoreState, k, c).found
        /\ \A parts \in [projectKey : { <<"P">>, <<"p">> },
                           issueTypeId : { TaskId, BugName },
                           statusName : { TODO, DONE }] :
              TransitionGet(tcache, parts) = Undef

C4_Witness ==
    /\ event.op = "authChange"
    /\ event.res = "both"

\* C5: at most one prefetch task runs per case-normalized project key; a
\* prefetch(P) made while the task of P runs starts no second one.
C5_OneTaskPerProject ==
    \A t1, t2 \in DOMAIN tasks :
        (Running(t1) /\ Running(t2)
            /\ toLowerCase(tasks[t1].key) = toLowerCase(tasks[t2].key)) => t1 = t2

C5_Witness ==
    /\ event.op = "prefetch"
    /\ event.key = <<"P">>
    /\ \E t \in DOMAIN tasks :
          Running(t) /\ tasks[t].stage = "walk" /\ tasks[t].key = normalizeProjectKey(event.key)

\* C6: the tracking entry of a project is there exactly while its task runs:
\* a task that is over, by success, missing credentials or failure, has left
\* no entry behind, so that a later prefetch(P) starts a fresh walk.
C6_EntryOnlyWhileRunning ==
    /\ \A k \in DOMAIN pendingProjects :
          Running(pendingProjects[k]) /\ tasks[pendingProjects[k]].key = k
    /\ \A t \in DOMAIN tasks :
          Running(t) => (MapHas(pendingProjects, tasks[t].key)
                            /\ pendingProjects[tasks[t].key] = t)

C6_Witness ==
    /\ event.op = "fetchFail"
    /\ event.pass.outcome = "failed"
    /\ ~MapHas(pendingProjects, event.key)

\* C9: when a pass that no clear() disturbed has walked the project, the
\* transition cache holds an entry for every triple whose search found an
\* issue with a non-empty transition list, and none for a triple whose search
\* or transition fetch failed or came back empty.
C9_StoredExactlySucceeded ==
    (event.pass.outcome = "walked" /\ event.pass.undisturbed) =>
        \A T \in DOMAIN event.pass.out :
            /\ event.pass.out[T] = "stored" => MapHas(tcache, T)
            /\ event.pass.out[T] = "failed" => ~MapHas(tcache, T)

SearchOutstanding(t, T) ==
    /\ MapHas(tasks[t].out, T)
    /\ tasks[t].out[T] = "searching"

Missing(transitions) == transitions = Undef \/ Len(transitions) = 0

\* C12: remember(parts, transitions) leaves the transition cache unchanged
\* whenever transitions is missing or empty or a key part is missing or blank
\* after trimming, so remember(key, []) after remember(key, A) leaves
\* get(key) = A; and get with a malformed key returns nothing.
C12_MalformedRememberIsNoOp ==
    [][event'.op = "remember" =>
          /\ (Missing(event'.value) \/ buildKey(event'.parts) = Undef) => tcache' = tcache
          /\ \A parts \in PartsInputs :
                buildKey(parts) = Undef => TransitionGet(tcache', parts) = Undef]_vars

C12_Witness ==
    /\ event.op = "remember"
    /\ event.value = <<>>
    /\ event.res = "other"
    /\ TransitionGet(tcache, event.parts) = ListA

NormPart(v) == IF v = Undef THEN <<>> ELSE toLowerCase(trim(v))

\* the two triples are well formed and equal part by part after trimming and
\* lower-casing
SameTriple(k1, k2) ==
    /\ NormPart(k1.projectKey) # <<>>
    /\ NormPart(k1.issueTypeId) # <<>>
    /\ NormPart(k1.statusName) # <<>>
    /\ NormPart(k1.projectKey) = NormPart(k2.projectKey)
    /\ NormPart(k1.issueTypeId) = NormPart(k2.issueTypeId)
    /\ NormPart(k1.statusName) = NormPart(k2.statusName)

\* the last step was remember(k1, L), L non-empty, on an empty cache
RememberedOnEmpty ==
    /\ event.op = "remember"
    /\ event.res = "new"
    /\ event.key # Undef
    /\ ~Missing(event.value)
    /\ Cardinality(DOMAIN tcache) = 1

FetchedGroups == cache[event.key].issueTypeStatuses

\* C14: when a load has stored the entry of a successful fetch, for every
\* fetched group with a unique id getIssueTypeStatuses(P, {issueTypeId: id})
\* returns exactly that group's statuses, in the fetched order.
C14_FetchedGroupServedById ==
    event.op = "fetchSucceed" =>
        \A i \in 1..Len(FetchedGroups) :
            LET UniqueId ==
                    /\ FetchedGroups[i].issueTypeId # Undef
                    /\ \A j \in 1..Len(FetchedGroups) :
                          FetchedGroups[j].issueTypeId = FetchedGroups[i].issueTypeId => j = i
            IN  UniqueId =>
                getIssueTypeStatuses(StoreState, event.key, [issueTypeId |-> FetchedGroups[i].issueTypeId, issueTypeName |-> Undef])
                    = [found |-> TRUE, value |-> FetchedGroups[i].statuses]

IdentifierSet(c) == {Identifiers(c)[n] : n \in 1..Len(Identifiers(c))}

\* the first group of the pass that carries the identifier
FirstCarrier(groups, id) ==
    Lowest({i \in 1..Len(groups) : id \in IdentifierSet(groups[i])})

Slot(projectKey, id) == toLowerCase(projectKey) \o Delim \o id

C16_RefreshLeavesFetchedData ==
    /\ (event.op = "refresh" /\ event.res # "undef") =>
          /\ ~StoreGet(StoreState, event.key).found
          /\ \A c \in CriteriaInputs : ~getIssueTypeStatuses(StoreState, event.key, c).found
    /\ event.op = "fetchSucceed" =>
          \A i \in 1..Len(FetchedGroups) : \A id \in IdentifierSet(FetchedGroups[i]) :
              /\ MapHas(issueTypeCache, Slot(event.key, id))
              /\ issueTypeCache[Slot(event.key, id)]
                    = FetchedGroups[FirstCarrier(FetchedGroups, id)].statuses

(***************************************************************************)
(* The status control of the issue panel                                   *)
(***************************************************************************)
\* C17: after the transition request of a status change has succeeded, the
\* panel is rendered with the status control settled (statusPending false)
\* only once a live transitions fetch has ended since.
C17_SettledAfterLiveFetch ==
    LET \* handleStatusChange between transitionIssueStatus resolving and its
        \* forced transitions fetch ending
        Transitioned(p) ==
            procs[p].kind = "status" /\ procs[p].pc \in {"issue", "transitions"}
    IN  (event.op = "panel" /\ event.res = "rendered" /\ rendered.statusPending = False) =>
            \A p \in DOMAIN procs : Transitioned(p) => procs[p].live

\* C18: when a status change fails, the panel is rendered with the error in
\* statusError, with the status control not pending and showing the options
\* it showed before the attempt, and the panel's issue and transitions are
\* unchanged.
C18_FailedChangeRestoresControl ==
    [][LET \* the step is the catch block of handleStatusChange rendering the panel
           StatusChangeFailed(p) ==
               /\ procs[p].kind = "status"
               /\ procs[p].pc \in {"transition", "issue"}
               /\ procs'[p].kind = "none"
               /\ event'.op = "panel"
               /\ event'.res = "rendered"
               /\ rendered'.statusError = FailedToUpdate
       IN  \A p \in DOMAIN procs :
               StatusChangeFailed(p) =>
                   /\ rendered'.statusPending # True
                   /\ rendered'.statusOptions = procs[p].shown
                   /\ panelState'.issue = panelState.issue
                   /\ panelState'.transitions = panelState.transitions]_vars

\* C19: once the requests of an open panel and of the status store have all
\* completed, the last render does not leave the status control pending (a
\* select that is shown and disabled).
C19_ControlLeavesPending ==
    LET Quiet ==
            /\ \A p \in DOMAIN procs : procs[p].kind = "none"
            /\ \A l \in DOMAIN loads : loads[l].stage = "free"
        ControlPending ==
            /\ rendered.statusOptions # Undef
            /\ Len(rendered.statusOptions) > 0
            /\ rendered.statusPending = True
    IN  (IssueKey \in openIssuePanels /\ Quiet) => ~ControlPending

\* C20: after the panel has been disposed no step changes the panel state or
\* renders the panel (the step that opens the key again makes a new panel).
C20_DisposedPanelUntouched ==
    [][(disposed /\ panels' = panels) =>
          (panelState' = panelState /\ event'.res # "rendered")]_vars

(***************************************************************************)
(* resolveIssueTransitions and the transition cache (SpecPanel)            *)
(***************************************************************************)
\* C21: with useCache (loadIssueDetails), resolveIssueTransitions returns the
\* cached list and issues no transitions fetch whenever the transition cache
\* holds a non-empty entry for the triple of the issue; otherwise it issues
\* one fetch, after which the invocation returns; the fetched list is stored
\* under the triple of the issue when it is non-empty, and nothing is
\* written when it is empty or the fetch failed.
C21_CacheFirstThenOneFetch ==
    [][event'.op = "panel" =>
          \A p \in DOMAIN procs :
              LET proc == procs[p]
                  fetchedIssue == RemoteIssue(remoteStatus)
                  cached == TransitionGet(tcache,
                                transitionCacheKey(deriveProjectKeyFromIssueKey(fetchedIssue.key),
                                                   fetchedIssue))
                  hit == cached # Undef /\ Len(cached) > 0
                  triple == transitionCacheKey(deriveProjectKeyFromIssueKey(proc.issue.key),
                                               proc.issue)
                  result == panelState'.transitions
              IN  /\ (proc.kind = "load" /\ proc.pc = "issue" /\ procs'[p].pc # "issue" /\ hit) =>
                        /\ procs'[p].kind = "none"
                        /\ tcache' = tcache
                        /\ rendered'.statusPending = False => result = cached
                  /\ (proc.kind = "load" /\ proc.pc = "issue" /\ procs'[p].pc = "transitions") =>
                        /\ ~hit
                        /\ tcache' = tcache
                  /\ (proc.pc = "transitions" /\ procs'[p].pc # "transitions") =>
                        /\ procs'[p].kind = "none"
                        /\ IF result # Undef /\ Len(result) > 0
                           THEN tcache' = MapSet(tcache, buildKey(triple), result)
                           ELSE tcache' = tcache]_vars

\* a status change awaits its issue refetch, no live fetch has ended since
\* its transition succeeded, and the panel has just been rendered settled:
\* the list came from the transition cache
C21_Witness ==
    /\ event.res = "rendered"
    /\ rendered.statusPending = False
    /\ TransitionGet(tcache, transitionCacheKey(<<"P">>, panelState.issue)) = panelState.transitions
    /\ panelState.transitions = ListA
    /\ \E p \in DOMAIN procs :
          procs[p].kind = "status" /\ procs[p].pc = "issue" /\ ~procs[p].live

(***************************************************************************)
(* The fan-out of a prefetch pass (SpecPrefetch)                           *)
(***************************************************************************)
\* C22: within one prefetch pass the warm-ups of all (issue type, status)
\* pairs run concurrently and those of a later issue type do not wait for
\* those of an earlier one: while a warm-up of the pass is in flight, the
\* warm-up of every pair of the project has been started.
C22_WarmupsOfAllTypesStarted ==
    \A t \in DOMAIN tasks :
        LET task == tasks[t]
            InFlight == \E i \in 1..Len(task.warm) : task.warm[i] # "done"
        IN  (task.stage = "walk" /\ InFlight) =>
                \A g \in 1..Len(task.groups) :
                    LET group == task.groups[g]
                        identifier == GroupIdentifier(group)
                    IN  (identifier # Undef /\ Len(identifier) > 0) =>
                            \A i \in 1..Len(group.statuses) :
                                MapHas(task.out,
                                       buildPrefetchKey(task.key, identifier,
                                                        trim(group.statuses[i].name)))

(***************************************************************************)
(* The caches after an auth change                                         *)
(***************************************************************************)
\* C26: after an auth change has cleared the caches, the status store
\* returns no data obtained by a request that was started before the change.
\* fetchAndCache issues its request only with a token at hand, so once the
\* change handler of a logout has run and nobody is logged in, whatever the
\* store returns was fetched by a request started before that change: the
\* store returns nothing.
C26_NoDataFromBeforeAuthChange ==
    (~authInfo /\ ~token /\ authPc = "idle") =>
        /\ \A k \in ProjectKeyInputs : ~StoreGet(StoreState, k).found
        /\ \A k \in ProjectKeyInputs, c \in CriteriaInputs :
              ~getIssueTypeStatuses(StoreState, k, c).found

\* C27: every triple of the prefetcher's attempted set has a non-empty entry
\* in the transition cache under that triple.
C27_AttemptedTripleIsCached ==
    \A T \in prefetchedKeys : MapHas(tcache, T) /\ Len(tcache[T]) > 0

\* C28: whenever the status store holds a cache entry for a project key,
\* getIssueTypeStatuses with the id and the name of a group of that entry
\* whose identifiers no other group of the entry carries returns the
\* statuses of that group.
C28_SlotsAgreeWithEntry ==
    \A k \in DOMAIN cache :
        LET groups == cache[k].issueTypeStatuses
        IN  \A i \in 1..Len(groups) :
                LET Unique ==
                        \A j \in 1..Len(groups) :
                            j # i => IdentifierSet(groups[j]) \cap IdentifierSet(groups[i]) = {}
                IN  Unique =>
                        getIssueTypeStatuses(StoreState, k,
                                             [issueTypeId |-> groups[i].issueTypeId,
                                              issueTypeName |-> groups[i].issueTypeName])
                            = [found |-> TRUE, value |-> groups[i].statuses]

\* C29: every entry the issue controller writes to the transition cache
\* under the triple (project, issue type, status S) holds the transitions
\* the workflow offers from status S.
C29_EntryMatchesItsStatus ==
    \A S \in { TODO, DONE } :
        LET entry == TransitionGet(tcache, Parts(<<"P">>, TaskId, S))
        IN  entry # Undef => entry = RemoteTransitions(S)

(***************************************************************************)
(* The registry of open issue panels (SpecDispose)                         *)
(***************************************************************************)
\* C30: at most one issue panel exists per issue key: the key is in the
\* registry exactly while a panel of it exists, openIssueDetails for a key
\* in the registry creates no panel, and disposing the panel removes the
\* entry of the key, so that it can be opened again.
C30_OnePanelPerKey ==
    [][/\ panels'.live = IF IssueKey \in openIssuePanels' THEN 1 ELSE 0
       /\ IssueKey \in openIssuePanels => panels'.created = panels.created
       /\ panels'.live < panels.live => IssueKey \notin openIssuePanels']_vars

\* the key has been opened, closed and opened again: the new panel loads
C30_Witness ==
    /\ panels = [created |-> 2, live |-> 1]
    /\ IssueKey \in openIssuePanels
    /\ ~disposed
    /\ \E p \in DOMAIN procs : procs[p].kind = "load"

(***************************************************************************)
(* Properties of the batches of prefetchIssues (SpecIssues,                *)
(* SpecCredentials)                                                        *)
(***************************************************************************)
\* C23: the check-then-mark of the prefetcher is atomic per triple: at most
\* one warm-up transitions fetch of a (project, issue type, status) triple
\* is in flight at a time, and no fetch is issued for a triple that is
\* already marked attempted.
C23_OneFetchPerTriple ==
    [][LET KeyOf(B, x) ==
               LET issue == B[x[1]].issues[x[2]]
                   id == OptTrim(issue.issueTypeId)
               IN  buildPrefetchKey(B[x[1]].key,
                                    IF id # Undef /\ Len(id) > 0 THEN id
                                    ELSE OptTrim(issue.issueTypeName),
                                    OptTrim(issue.statusName))
           InFlight(B) ==
               {x \in (DOMAIN B) \X (1..ISSUE_LIMIT_PER_PREFETCH) :
                   /\ B[x[1]].stage = "fetch"
                   /\ x[2] \in DOMAIN B[x[1]].fetch
                   /\ B[x[1]].fetch[x[2]] = "fetch"}
       IN  /\ \A x, y \in InFlight(batches') :
                   KeyOf(batches', x) = KeyOf(batches', y) => x = y
           /\ \A x \in InFlight(batches') \ InFlight(batches) :
                   KeyOf(batches', x) \notin prefetchedKeys]_vars

\* C24: a pass of prefetch(P) or a batch of prefetchIssues(P, issues) that
\* finds the auth info or the token absent ends there: it starts no status
\* load, no search and no transitions fetch, leaves the transition cache and
\* the attempted set as they are, and a pass ends without an error.
C24_NoCredentialsIsSilent ==
    [][/\ \A b \in DOMAIN batches :
              (/\ batches[b].stage = "creds"
               /\ batches'[b].stage # "creds"
               /\ (~batches[b].authInfo \/ ~token))
              => /\ batches'[b] = FreeBatch
                 /\ tcache' = tcache
                 /\ prefetchedKeys' = prefetchedKeys
                 /\ loads' = loads
                 /\ tasks' = tasks
       /\ \A t \in DOMAIN tasks :
              (/\ tasks[t].stage = "creds"
               /\ tasks'[t].stage # "creds"
               /\ (~tasks[t].authInfo \/ ~token))
              => /\ tasks'[t] = FreeTask
                 /\ event'.pass.outcome = "nocreds"
                 /\ tcache' = tcache
                 /\ prefetchedKeys' = prefetchedKeys
                 /\ loads' = loads
                 /\ batches' = batches]_vars

\* a batch has just ended for lack of credentials, after an earlier batch
\* had marked its triple
C24_Witness ==
    /\ event.op = "issuesCreds"
    /\ event.res = "nocreds"
    /\ prefetchedKeys # {}

\* C25: a batch of prefetchIssues has a transitions fetch only for issues
\* among the first ISSUE_LIMIT_PER_PREFETCH of its list that have a key, an
\* issue-type identifier and a non-blank status name, and when the fetch of
\* one issue throws the fetches of the other issues stay in flight.
C25_BatchIsLimited ==
    [][LET NonBlank(v) == v # Undef /\ Len(trim(v)) > 0
           Valid(issue) ==
               /\ issue.key # Undef /\ Len(issue.key) > 0
               /\ NonBlank(issue.issueTypeId) \/ NonBlank(issue.issueTypeName)
               /\ NonBlank(issue.statusName)
           InFlight(B) ==
               {x \in (DOMAIN B) \X (1..ISSUE_LIMIT_PER_PREFETCH + 1) :
                   /\ B[x[1]].stage = "fetch"
                   /\ x[2] \in DOMAIN B[x[1]].fetch
                   /\ B[x[1]].fetch[x[2]] = "fetch"}
       IN  /\ \A b \in DOMAIN batches :
                  batches'[b].stage = "fetch"
                  => /\ Len(batches'[b].fetch) <= ISSUE_LIMIT_PER_PREFETCH
                     /\ \A i \in DOMAIN batches'[b].fetch :
                            batches'[b].fetch[i] # "none" => Valid(batches'[b].issues[i])
           /\ (event'.op = "issueSettled" /\ event'.res = "threw")
                  => InFlight(batches) \ InFlight(batches') \in
                         {{x} : x \in InFlight(batches)}]_vars

\* the only batch holds more issues than the limit; the fetch of one of its
\* issues has just thrown and the fetch of another is still in flight
C25_Witness ==
    /\ event.op = "issueSettled"
    /\ event.res = "threw"
    /\ \E b \in DOMAIN batches :
          /\ batches[b].stage = "fetch"
          /\ Len(batches[b].issues) > ISSUE_LIMIT_PER_PREFETCH
          /\ \E i, j \in DOMAIN batches[b].fetch :
                batches[b].fetch[i] = "fetch" /\ batches[b].fetch[j] = "done"
          /\ \A c \in DOMAIN batches \ {b} : batches[c].stage = "free"

====
